---- MODULE Spec2Model ----
(***************************************************************************)
(* Build orchestration of the Android skin builder (asb):                  *)
(*   - dependency.rs : group_configs_by_dependencies, topological_sort,    *)
(*                     extract_common_dependencies, normalize_path         *)
(*   - cli.rs        : Cli::run_build (single and multi configuration)     *)
(*   - builder.rs    : SkinBuilder::new / SkinBuilder::build               *)
(*                                                                         *)
(* Configuration indices are 1-based here (index i of the model is index   *)
(* i-1 of the Rust vectors).  A path is a pair <<d, sep>>: the directory   *)
(* it spells and the separator it is spelled with.                         *)
(***************************************************************************)
EXTENDS Integers, Sequences, FiniteSets, TLC

(* ----------------------------- bounds ---------------------------------- *)
\* inputs of the resolver specification (SpecResolve)
MaxConfigs == 3
\* additionalResourceDirs entries of one configuration list, all configurations together
MaxRefs == 2
\* configurations of the longer lists of the resolver (SpecChains)
MaxChainConfigs == 4
\* additionalResourceDirs entries of the inputs of SpecExtract, all together
MaxExtractRefs == 3
\* AAR and additional directory indices of the inputs of SpecPriority
MaxIndex == 2
\* length of the file contents of the inputs of SpecCache
MaxContentLen == 2
\* resource directories of the pipeline of SpecPipeline
MaxPipelineDirs == 2
\* calls of add_resource on one tracker
MaxAdds == 3
\* files beneath the resource directory of find_resource_files
MaxFiles == 2
\* additional resource directories of the build of SpecSub
MaxAdditional == 2
\* inputs of the build specification (Spec)
MaxBuildConfigs == 2
MaxParallel == 2

VARIABLES
    configs,        \* Vec<BuildConfig>: [resource_dir, additional_resource_dirs]
    onDisk,         \* directories that exist on disk (and hold resource files)
    badDirs,        \* directories holding a resource file the compiler rejects
    pc,             \* position of Cli::run_build / of the caller of the resolver
    grouped,        \* result of group_configs_by_dependencies
    common_deps,    \* result of extract_common_dependencies, in iteration order
    commonIdx,      \* number of common dependencies the compile loop has handled
    commonCache,    \* common_dep_cache.cache.entries (the directories that have an entry)
    commonCompiled, \* directories compile_dir compiled successfully in this invocation
    commonSaved,    \* common_dep_cache.save() has returned
    compiledBy,     \* <<i, d>>: the pipeline of configuration i ran the compiler on directory d
    max_parallel,   \* permits the semaphore was created with (0 while there is none)
    permits,        \* permits currently available
    task,           \* per configuration: status of its pipeline
    outcome,        \* per configuration: how its pipeline ended
    all_results,    \* the elements <<index, result.success>> of Vec<(usize, BuildResult)>
    success_count,
    fail_count,
    depPos,         \* number of members of the dependent group already built
    exitStatus,     \* "running", or how the process ended
    flat_files_by_priority, \* SkinBuilder::build: Vec<(ResourcePriority, Vec<PathBuf>, PathBuf)>
    base_flat_files,        \* SkinBuilder::build: Vec<PathBuf> passed to the linker as base
    overlay_flat_files,     \* SkinBuilder::build: Vec<Vec<PathBuf>> passed as overlays
    cacheKind,      \* "file" (BuildCache) or "dir" (CommonDependencyCache)
    fileContent,    \* the resource file: <<>> when it cannot be read, else <<content>>
    dirFiles,       \* the resource directory: relative path -> content
    flatExists,     \* the flat file(s) of the entry exist on disk
    cache_file,     \* the persisted cache file as new() finds it
    cache,          \* CacheData: version and the entry of the resource (<<>> or <<hash>>)
    recorded,       \* the resource and the artifact as they were at the last update_entry
    changedSince,   \* the resource changed or the artifact was deleted since then
    package_name,   \* BuildConfig.package_name of every configuration
    cache_dirs,     \* the base cache directory of every configuration
    sem,            \* permits available in the semaphore
    builder,        \* per task: where it is, and the entries of its BuildCache
    cacheFiles,     \* the entries held by every persisted cache file
    writes,         \* the writes of persisted cache files so far
    dirStates,      \* one build(): what it finds at each resource directory
    incremental,    \* config.incremental
    stage,          \* where build() is: new, dirs, save, link, done
    dirIdx,         \* resource directories handled by the loop so far
    cacheEntries,   \* directories whose files have an up to date cache entry
    missing_dirs,   \* Vec<String> of the directories not found
    flat_dirs,      \* directories that pushed flat files, in push order
    link_result,    \* <<>> or <<LinkResult>>
    buildResult,    \* what build() returned
    faults,         \* cache operations that failed
    recompiled,     \* directories whose files were passed to the compiler
    build_configs,  \* concurrent pipelines: Vec<BuildConfig> of run_build
    given,          \* the configurations that came with a compiledDir
    scratchPc,      \* idle, assign (before cli.rs 323), run
    position,       \* where each spawned pipeline is
    free,           \* permits left in the semaphore
    scratch,        \* <<directory, writer>> of the flat files on disk
    manifests,      \* per output directory: <<>> or <<package of the manifest file>>
    linked,         \* per pipeline: <<>> or <<what its link read>>
    resources,      \* tracker.resources: normalized path -> ResourceInfo
    conflicts,      \* tracker.conflicts
    added,          \* the ResourceInfo values passed to add_resource, in call order
    returned,       \* what each add_resource call returned
    tree,           \* the files beneath the resource directory, as paths relative to it
    found,          \* <<>> or <<the files find_resource_files returned>>
    command,        \* <<>>, or the flat file arguments of the aapt2 link command
    depOrder,       \* common_deps of the phase, as directory names in iteration order
    depProduces,    \* per common dependency: the flat file names aapt2 writes for it
    depNeeds,       \* the common dependencies for which needs_recompile is true
    compiledListing,\* common-deps/compiled: flat file name -> where the file came from
    depEntries,     \* common_dep_cache entries: directory -> recorded flat file names
    depIdx,         \* common dependencies the loop has handled
    depCompiled,    \* the common dependencies compiled with success in this phase
    aarConfigs,     \* per pipeline: output_dir and aar_files of its BuildConfig
    aarPos,         \* where each pipeline is: spawned, running, extracted, compiled, done
    aarFree,        \* permits left in the semaphore
    extractedDirs,  \* <<extract directory, pipeline that wrote it last>>
    fileStatus,     \* per resource file: how the cache and the disk stand for it
    rejects,        \* the resource files aapt2 compile fails on
    fileEntries,    \* cache.entries: resource file -> <<>> or <<CacheEntry>>
    invokedOn,      \* the resource files aapt2 compile was run on
    compileResult,  \* <<>> or <<what compile_all_resources returned>>
    resDirs,        \* resource_dirs_with_priority: per directory its path, dir_name and resource files
    subScratch,     \* <<dir_name, flat file name, writer>> of the flat files under compiled_dir
    subCollected,   \* flat_files_by_priority: per compiled directory the paths collected (and what clearing removed)
    subIdx,         \* resource directories the loop has handled
    subLinked       \* <<>>, or the flat file paths passed to the linker and those present

\* the variables of the link inputs (specification SpecPriority)
priorityVars == <<flat_files_by_priority, base_flat_files, overlay_flat_files>>

\* one cache (BuildCache or CommonDependencyCache) and the resource it tracks
cacheVars == <<cacheKind, fileContent, dirFiles, flatExists, cache_file, cache,
               recorded, changedSince>>

\* the variables the scheduling specifications leave alone
\* the caches of the pipelines that run concurrently
shareVars == <<package_name, cache_dirs, sem, builder, cacheFiles, writes>>

\* one run of SkinBuilder::build
pipeVars == <<dirStates, incremental, stage, dirIdx, cacheEntries, missing_dirs,
              flat_dirs, link_result, buildResult, faults, recompiled>>

\* the files that concurrent pipelines share
scratchVars == <<build_configs, given, scratchPc, position, free, scratch,
                 manifests, linked>>

\* ResourcePriorityTracker and the calls made on it
trackVars == <<resources, conflicts, added, returned>>

\* a resource directory and what find_resource_files returned for it
findVars == <<tree, found>>

\* what link_with_overlays passed to the linker
linkVars == <<command>>

\* the common dependency phase and the directory its compiles share
commonVars == <<depOrder, depProduces, depNeeds, compiledListing, depEntries, depIdx, depCompiled>>

\* concurrent pipelines and the directories their AAR files are extracted to
aarVars == <<aarConfigs, aarPos, aarFree, extractedDirs>>

\* one incremental compile_all_resources call on a resource directory
incVars == <<fileStatus, rejects, fileEntries, invokedOn, compileResult>>

\* one non-incremental build and the scratch subdirectories of its resource directories
subVars == <<resDirs, subScratch, subCollected, subIdx, subLinked>>

auxVars == <<priorityVars, cacheVars, shareVars, pipeVars, scratchVars, trackVars, findVars, linkVars, commonVars, aarVars, incVars, subVars>>

\* the variables of the scheduling specifications
runVars == <<configs, onDisk, badDirs, pc, grouped, common_deps, commonIdx, commonCache,
             commonCompiled, commonSaved, compiledBy, max_parallel, permits,
             task, outcome, all_results, success_count,
             fail_count, depPos, exitStatus>>

vars == <<runVars, auxVars>>

buildVars == <<common_deps, commonIdx, commonCache, commonCompiled, commonSaved,
               compiledBy, max_parallel, permits, task,
               outcome, all_results, success_count, fail_count, depPos,
               exitStatus>>

(* ----------------------------- paths ----------------------------------- *)
\* directories of the resolver inputs and the spellings configurations use for
\* them: both directories with '/', directory 1 also with '\'
Dirs == {1, 2}
Paths == {<<d, "/">> : d \in Dirs} \cup {<<1, "\\">>}

\* directories and spellings of the build inputs: directory 1 exists and
\* compiles; directory 2 exists and compiles, or exists and is rejected by the
\* compiler, or is missing
BuildDirs == {1, 2}
BuildPaths == {<<d, "/">> : d \in BuildDirs}

\* std::fs::canonicalize(path) succeeds: the spelled path exists (a spelling
\* with '\' names no existing directory on the host the tool runs on)
Canonicalizes(path, disk) == path[2] = "/" /\ path[1] \in disk

\* normalize_path: the canonical absolute path when the path exists, else the
\* string with every '\' replaced by '/'
normalize_path(path, disk) ==
    IF Canonicalizes(path, disk)
    THEN <<"abs", path[1]>>
    ELSE <<"rel", path[1]>>

(* --------------------------- sequences --------------------------------- *)
SeqsUpTo(S, n) == UNION {[1..k -> S] : k \in 0..n}

Range(s) == {s[i] : i \in DOMAIN s}

\* position of the first occurrence of x in s (0 when absent)
IndexOf(s, x) ==
    IF x \in Range(s) THEN CHOOSE i \in DOMAIN s : s[i] = x /\ \A j \in 1..(i-1) : s[j] # x
    ELSE 0

RECURSIVE Concat(_)
Concat(ss) == IF ss = <<>> THEN <<>> ELSE Head(ss) \o Concat(Tail(ss))

\* the members of the set of indices S, ascending
Ascending(n, S) == SelectSeq([i \in 1..n |-> i], LAMBDA x : x \in S)

\* the orders in which a hash container may iterate over the set S
Orderings(S) ==
    {s \in [1..Cardinality(S) -> S] : \A i, j \in DOMAIN s : i # j => s[i] # s[j]}

(* ------------------------- configurations ------------------------------ *)
\* the ways to hand out at most r additional entries to n configurations: the
\* entries <<configuration, path>> listed configuration by configuration
RefPlacements(paths, n, r) ==
    {s \in SeqsUpTo((1..n) \X paths, r) :
        \A k \in 1..(Len(s) - 1) : s[k][1] <= s[k + 1][1]}

\* additional_resource_dirs of configuration i under the placement s
AdditionalOf(s, i) ==
    LET mine == SelectSeq(s, LAMBDA e : e[1] = i)
    IN  [k \in DOMAIN mine |-> mine[k][2]]

\* Vec<BuildConfig>, reduced to the fields the orchestration reads
ConfigList(mains, s) ==
    [i \in DOMAIN mains |-> [resource_dir |-> mains[i],
                             additional_resource_dirs |-> AdditionalOf(s, i)]]

(* ---------------- dependency.rs: group_configs_by_dependencies --------- *)
\* resource_dir_to_configs.get(normalized): the configurations that declare the
\* directory as main or as additional directory (dependency.rs 46-60)
resource_dir_to_configs(cfgs, disk, normalized) ==
    {i \in DOMAIN cfgs :
        \/ normalize_path(cfgs[i].resource_dir, disk) = normalized
        \/ \E k \in DOMAIN cfgs[i].additional_resource_dirs :
              normalize_path(cfgs[i].additional_resource_dirs[k], disk) = normalized}

\* the test of dependency.rs 78-83: provider_idx provides `normalized` to idx
IsProviderOrSelf(cfgs, disk, idx, provider_idx, normalized) ==
    normalize_path(cfgs[provider_idx].resource_dir, disk) = normalized

IsProvider(cfgs, disk, idx, provider_idx, normalized) ==
    /\ provider_idx # idx
    /\ normalize_path(cfgs[provider_idx].resource_dir, disk) = normalized

\* deps of one configuration (dependency.rs 66-88): for each additional directory
\* in declared order, the providers found.  The hash set of providers is listed
\* ascending: topological_sort reads of a deps vector only how often each
\* provider occurs in it (one push onto that provider's adjacency list and one
\* increment of the in-degree per occurrence), never the order of its elements.
DepsOf(cfgs, disk, idx) ==
    Concat([k \in DOMAIN cfgs[idx].additional_resource_dirs |->
        LET normalized == normalize_path(cfgs[idx].additional_resource_dirs[k], disk)
        IN  Ascending(Len(cfgs),
                {p \in resource_dir_to_configs(cfgs, disk, normalized) :
                    IsProvider(cfgs, disk, idx, p, normalized)})])

\* the map `dependencies` (dependency.rs 63-93) as a function on all indices;
\* its keys are the indices with a non-empty vector
Dependencies(cfgs, disk) ==
    [idx \in DOMAIN cfgs |-> DepsOf(cfgs, disk, idx)]

DepKeys(dependencies) == {i \in DOMAIN dependencies : dependencies[i] # <<>>}

(* ---------------- dependency.rs: topological_sort ---------------------- *)
\* the (dependency, dependent) pairs in the order the loop of dependency.rs
\* 178-183 visits them; `order` lists the keys of `dependencies` in the
\* iteration order of the hash map
EdgesSwapped(dependencies, order) ==
    Concat([j \in DOMAIN order |->
        [m \in DOMAIN dependencies[order[j]] |-> <<order[j], dependencies[order[j]][m]>>]])

Edges(dependencies, order) ==
    Concat([j \in DOMAIN order |->
        [m \in DOMAIN dependencies[order[j]] |-> <<dependencies[order[j]][m], order[j]>>]])

\* in_degree after the loop: one increment per pair, on the dependent
InDegree(num_configs, edges) ==
    [i \in 1..num_configs |-> Len(SelectSeq(edges, LAMBDA e : e[2] = i))]

\* adj_list.get(node) after the loop: one push per pair, onto the dependency
AdjList(edges, node) ==
    LET mine == SelectSeq(edges, LAMBDA e : e[1] = node)
    IN  [m \in DOMAIN mine |-> mine[m][2]]

\* no node found to start from
EmptyQueue(in_degree) == <<>>

\* the initial queue (dependency.rs 186-188): the nodes of in-degree 0, ascending
InitialQueue(in_degree) ==
    SelectSeq([i \in DOMAIN in_degree |-> i], LAMBDA i : in_degree[i] = 0)

\* the inner loop of dependency.rs 196-203 over the dependents of the popped node
RECURSIVE ReduceDependents(_, _, _)
ReduceDependents(dependents, in_degree, queue) ==
    IF dependents = <<>> THEN [in_degree |-> in_degree, queue |-> queue]
    ELSE LET dependent == Head(dependents)
             deg == [in_degree EXCEPT ![dependent] = @ - 1]
         IN  ReduceDependents(Tail(dependents), deg,
                 IF deg[dependent] = 0 THEN Append(queue, dependent) ELSE queue)

\* the loop `while let Some(node) = queue.pop_front()` (dependency.rs 192-204)
RECURSIVE KahnLoop(_, _, _, _)
KahnLoop(edges, queue, in_degree, sorted) ==
    IF queue = <<>> THEN sorted
    ELSE LET node == Head(queue)
             r == ReduceDependents(AdjList(edges, node), in_degree, Tail(queue))
         IN  KahnLoop(edges, r.queue, r.in_degree, Append(sorted, node))

\* the check of dependency.rs 207: the sort left some node out
CycleNeverDetected(sorted, num_configs) == FALSE

CycleDetected(sorted, num_configs) == Len(sorted) # num_configs

CycleError == [ok |-> FALSE, err |-> "Circular dependency detected in configuration dependencies"]

\* topological_sort: Ok(sorted) or the cycle error
topological_sort(num_configs, dependencies, order) ==
    LET edges == Edges(dependencies, order)
        in_degree == InDegree(num_configs, edges)
        sorted == KahnLoop(edges, InitialQueue(in_degree), in_degree, <<>>)
    IN  IF CycleDetected(sorted, num_configs)
        THEN CycleError
        ELSE [ok |-> TRUE, sorted |-> sorted]

\* the keys of `dependencies` alone: the configurations that depend on one
ConsumersOnly(dependencies) == DepKeys(dependencies)

\* in_dependency_chain (dependency.rs 102-110): every key of `dependencies` and
\* every index one of them depends on
InDependencyChain(dependencies) ==
    DepKeys(dependencies) \cup UNION {Range(dependencies[i]) : i \in DOMAIN dependencies}

\* group_configs_by_dependencies.  A ConfigWithIndex is represented by its index
\* (its config is configs[index]); `order` lists the keys of `dependencies` in
\* the iteration order of the hash map in this call.
group_configs_by_dependencies(cfgs, disk, order) ==
    IF Len(cfgs) = 0 THEN [ok |-> TRUE, independent |-> <<>>, dependent_groups |-> <<>>]
    ELSE IF Len(cfgs) = 1 THEN [ok |-> TRUE, independent |-> <<1>>, dependent_groups |-> <<>>]
    ELSE
      LET dependencies == Dependencies(cfgs, disk)
          sorted_indices == topological_sort(Len(cfgs), dependencies, order)
          chain == InDependencyChain(dependencies)
      IN  IF ~sorted_indices.ok THEN sorted_indices
          ELSE LET current_group == SelectSeq(sorted_indices.sorted, LAMBDA i : i \in chain)
               IN  [ok |-> TRUE,
                    independent |-> SelectSeq(sorted_indices.sorted, LAMBDA i : i \notin chain),
                    dependent_groups |->
                        IF current_group # <<>> THEN <<current_group>> ELSE <<>>]

\* no call has returned yet
NoResult == [ok |-> FALSE, err |-> "not called"]

(* ---------------- dependency.rs: extract_common_dependencies ----------- *)
\* the keys of resource_usage: the normalized additional directories
UsageKeys(cfgs, disk) ==
    UNION {{normalize_path(cfgs[i].additional_resource_dirs[k], disk) :
                k \in DOMAIN cfgs[i].additional_resource_dirs} : i \in DOMAIN cfgs}

\* the additional entries of configuration idx that normalize to key
EntriesFor(cfgs, disk, idx, key) ==
    SelectSeq(cfgs[idx].additional_resource_dirs,
              LAMBDA dir : normalize_path(dir, disk) = key)

\* resource_usage[key].0 (dependency.rs 250-261): one push of idx per entry
UsageOf(cfgs, disk, key) ==
    Concat([idx \in DOMAIN cfgs |->
        [m \in DOMAIN EntriesFor(cfgs, disk, idx, key) |-> idx]])

\* resource_usage[key].1: the first entry seen for the key
OriginalPath(cfgs, disk, key) ==
    LET first == CHOOSE idx \in DOMAIN cfgs :
                    /\ EntriesFor(cfgs, disk, idx, key) # <<>>
                    /\ \A j \in 1..(idx - 1) : EntriesFor(cfgs, disk, j, key) = <<>>
    IN  Head(EntriesFor(cfgs, disk, first, key))

\* the test of dependency.rs 267
IsCommon(dependent_indices) == Len(dependent_indices) > 1

\* the CommonDependency pushed for a key (dependency.rs 270-283)
CommonDependencyOf(cfgs, disk, key) ==
    LET owners == {c \in DOMAIN cfgs : normalize_path(cfgs[c].resource_dir, disk) = key}
    IN  [resource_dir |->
            IF owners # {}
            THEN cfgs[CHOOSE c \in owners : \A o \in owners : c <= o].resource_dir
            ELSE OriginalPath(cfgs, disk, key),
         dependent_configs |-> UsageOf(cfgs, disk, key)]

CommonKeys(cfgs, disk) ==
    IF Len(cfgs) <= 1 THEN {}
    ELSE {key \in UsageKeys(cfgs, disk) : IsCommon(UsageOf(cfgs, disk, key))}

\* extract_common_dependencies; `order` lists the reported keys of
\* resource_usage in the iteration order of the hash map
extract_common_dependencies(cfgs, disk, order) ==
    [k \in DOMAIN order |-> CommonDependencyOf(cfgs, disk, order[k])]

(* ------------------------ resolver specification ----------------------- *)
\* the link inputs are not used by the scheduling specifications
PriorityIdle ==
    flat_files_by_priority = <<>> /\ base_flat_files = <<>> /\ overlay_flat_files = <<>>

CacheIdle ==
    /\ cacheKind = "none"
    /\ fileContent = <<>>
    /\ dirFiles = <<>>
    /\ flatExists = FALSE
    /\ cache_file = [state |-> "absent", version |-> "1.0", entries |-> <<>>]
    /\ cache = [version |-> "1.0", entries |-> <<>>]
    /\ recorded = <<>>
    /\ changedSince = FALSE

ShareIdle ==
    /\ package_name = <<>> /\ cache_dirs = <<>> /\ sem = 0
    /\ builder = <<>> /\ cacheFiles = <<>> /\ writes = {}

PipeIdle ==
    /\ dirStates = <<>> /\ incremental = FALSE /\ stage = "none" /\ dirIdx = 0
    /\ cacheEntries = {} /\ missing_dirs = <<>> /\ flat_dirs = <<>>
    /\ link_result = <<>> /\ buildResult = [kind |-> "none"]
    /\ faults = {} /\ recompiled = {}

ScratchIdle ==
    /\ build_configs = <<>> /\ given = {} /\ scratchPc = "idle"
    /\ position = <<>> /\ free = 0 /\ scratch = {}
    /\ manifests = <<>> /\ linked = <<>>

TrackIdle ==
    /\ resources = <<>> /\ conflicts = <<>> /\ added = <<>> /\ returned = <<>>

FindIdle ==
    /\ tree = {} /\ found = <<>>

LinkIdle ==
    command = <<>>

CommonIdle ==
    /\ depOrder = <<>> /\ depProduces = <<>> /\ depNeeds = {} /\ compiledListing = <<>>
    /\ depEntries = <<>> /\ depIdx = 0 /\ depCompiled = {}

AarIdle ==
    /\ aarConfigs = <<>> /\ aarPos = <<>> /\ aarFree = 0 /\ extractedDirs = {}

IncIdle ==
    /\ fileStatus = <<>> /\ rejects = {} /\ fileEntries = <<>> /\ invokedOn = {}
    /\ compileResult = <<>>

SubIdle ==
    /\ resDirs = <<>> /\ subScratch = {} /\ subCollected = <<>> /\ subIdx = 0
    /\ subLinked = <<>>

AuxIdle == PriorityIdle /\ CacheIdle /\ ShareIdle /\ PipeIdle /\ ScratchIdle /\ TrackIdle /\ FindIdle /\ LinkIdle /\ CommonIdle /\ AarIdle /\ IncIdle /\ SubIdle

\* the build variables are not used by the resolver specification
BuildIdle ==
    /\ common_deps = <<>> /\ commonIdx = 0 /\ commonCache = {} /\ commonCompiled = {}
    /\ commonSaved = FALSE /\ compiledBy = {} /\ max_parallel = 0 /\ permits = 0
    /\ task = <<>> /\ outcome = <<>>
    /\ all_results = {} /\ success_count = 0 /\ fail_count = 0 /\ depPos = 0
    /\ exitStatus = "running"

InitResolve ==
    /\ \E n \in 0..MaxConfigs :
         \E s \in RefPlacements(Paths, n, MaxRefs) :
           \E mains \in [1..n -> Paths] : configs = ConfigList(mains, s)
    /\ onDisk \in SUBSET {1}
    /\ badDirs = {}
    /\ pc = "call"
    /\ grouped = NoResult
    /\ BuildIdle
    /\ AuxIdle

\* one call of group_configs_by_dependencies(configs)
CallGroup ==
    /\ pc = "call"
    /\ \E order \in Orderings(DepKeys(Dependencies(configs, onDisk))) :
          grouped' = group_configs_by_dependencies(configs, onDisk, order)
    /\ pc' = "returned"
    /\ UNCHANGED <<configs, onDisk, badDirs, badDirs>>
    /\ UNCHANGED auxVars
    /\ UNCHANGED buildVars

NextResolve == CallGroup

SpecResolve == InitResolve /\ [][NextResolve]_vars

(* ------------------- properties of the resolver ------------------------ *)
\* the derived edge "consumer depends on provider": an additional directory of
\* the consumer equals, after normalization, the main directory of another
\* configuration
DependsOn(consumer, provider) ==
    /\ consumer # provider
    /\ \E k \in DOMAIN configs[consumer].additional_resource_dirs :
          normalize_path(configs[consumer].additional_resource_dirs[k], onDisk)
              = normalize_path(configs[provider].resource_dir, onDisk)

\* the derived edges contain a directed cycle: some non-empty set of
\* configurations in which every member depends on a member
HasCycle ==
    \E S \in SUBSET DOMAIN configs :
        S # {} /\ \A c \in S : \E p \in S : DependsOn(c, p)

\* the normalized directories configuration i refers to
DirsReferredBy(i) ==
    {normalize_path(configs[i].resource_dir, onDisk)}
        \cup {normalize_path(configs[i].additional_resource_dirs[k], onDisk) :
                k \in DOMAIN configs[i].additional_resource_dirs}

NoSharedDirs ==
    \A i, j \in DOMAIN configs : i # j => DirsReferredBy(i) \cap DirsReferredBy(j) = {}

\* C1: whenever group_configs_by_dependencies succeeds, every derived edge
\* "consumer depends on provider" has both ends in the dependent group, the
\* provider at an earlier position than the consumer.
C1_ProviderBeforeConsumer ==
    (pc = "returned" /\ grouped.ok) =>
        \A c, p \in DOMAIN configs :
            DependsOn(c, p) =>
                /\ grouped.dependent_groups # <<>>
                /\ LET g == grouped.dependent_groups[1]
                   IN  /\ IndexOf(g, p) > 0
                       /\ IndexOf(g, c) > 0
                       /\ IndexOf(g, p) < IndexOf(g, c)

\* a chain A -> B -> C given against the index order (C is configuration 1, A
\* is configuration 3) was returned as the group A, B, C
C1_Witness ==
    /\ pc = "returned" /\ grouped.ok
    /\ Len(configs) = 3
    /\ DependsOn(1, 2) /\ DependsOn(2, 3) /\ ~DependsOn(1, 3)
    /\ grouped.dependent_groups = << <<3, 2, 1>> >>

\* C2: when the derived edges contain a directed cycle the call fails with the
\* cycle error, and the value returned carries neither an independent list nor
\* an ordering.
C2_CycleFails ==
    (pc = "returned" /\ HasCycle) =>
        /\ grouped = CycleError
        /\ DOMAIN grouped = {"ok", "err"}

\* A depends on B and B depends on A, and the call returned the cycle error
C2_Witness ==
    /\ pc = "returned"
    /\ Len(configs) >= 2
    /\ DependsOn(1, 2) /\ DependsOn(2, 1)
    /\ grouped = CycleError

\* C3: when no directory is referred to by two configurations, the call
\* succeeds, every configuration is returned as independent and the list of
\* dependent groups is empty.
C3_NoSharedAllIndependent ==
    (pc = "returned" /\ NoSharedDirs) =>
        /\ grouped.ok
        /\ Len(grouped.independent) = Len(configs)
        /\ Range(grouped.independent) = DOMAIN configs
        /\ grouped.dependent_groups = <<>>

\* three configurations without a shared directory, one of them listing an
\* additional directory, all returned as independent
C3_Witness ==
    /\ pc = "returned" /\ NoSharedDirs
    /\ Len(configs) = 3
    /\ \E i \in DOMAIN configs : configs[i].additional_resource_dirs # <<>>
    /\ grouped.ok /\ grouped.independent = <<1, 2, 3>>

(* ------------------------- cli.rs: run_build ---------------------------- *)
\* SkinBuilder::build lists the main directory and then the additional
\* directories in declared order (builder.rs 177-218)
resource_dirs(i) ==
    <<configs[i].resource_dir>> \o configs[i].additional_resource_dirs

\* the directories build() finds on disk (res_dir.exists()), in that order
ExistingDirs(i) == SelectSeq(resource_dirs(i), LAMBDA path : path[1] \in onDisk)

\* the position in ExistingDirs(i) of the first directory the compiler
\* rejects (0 when it accepts them all)
FirstBad(i) ==
    LET bad == {k \in DOMAIN ExistingDirs(i) : ExistingDirs(i)[k][1] \in badDirs}
    IN  IF bad = {} THEN 0 ELSE CHOOSE k \in bad : \A m \in bad : k <= m

\* the first j of them, as the pairs recorded in compiledBy
CompiledPrefix(i, j) == {<<i, ExistingDirs(i)[k][1]>> : k \in 1..j}

\* the directories of the common dependencies
CommonDirs(cds) == {cds[k].resource_dir[1] : k \in DOMAIN cds}

\* cli.rs 254-257: max_parallel_builds.or(config_max_parallel)
\*                      .unwrap_or_else(num_cpus::get)
\* an Option<usize> is <<>> (None) or <<v>> (Some(v))
Options(S) == {<<>>} \cup {<<v>> : v \in S}

ResolveMaxParallel(max_parallel_builds, config_max_parallel, num_cpus) ==
    IF max_parallel_builds # <<>> THEN max_parallel_builds[1]
    ELSE IF config_max_parallel # <<>> THEN config_max_parallel[1]
    ELSE num_cpus

\* the values run_build can resolve from the command line option, the
\* configuration file and the number of CPUs
MaxParallelValues ==
    {ResolveMaxParallel(cli, cfg, cpus) :
        cli \in Options(0..MaxParallel),
        cfg \in Options(0..MaxParallel),
        cpus \in 1..MaxParallel}

\* cli.rs 409: the compile phase is entered for a non-empty list only
AfterExtractSkipping(cds) == "resolve"

AfterExtract(cds) == IF cds # <<>> THEN "common" ELSE "resolve"

\* tokio Semaphore::acquire completes only while a permit is available
PermitAlways(p) == TRUE

PermitAvailable(p) == p > 0

\* the members of the dependent groups in the order of the loops of cli.rs 558-565
Group == Concat(grouped.dependent_groups)

\* `for config_with_idx in group` with the awaited build inside: member i is
\* started when the pos members before it have been built and collected
IsAnyMember(group, pos, i) == i \in Range(group)

IsNextMember(group, pos, i) == pos < Len(group) /\ group[pos + 1] = i

\* a panic of an inline pipeline unwinds through run_build; an Err is matched
\* (cli.rs 572-583)
UnwindsOnError(o) == o \in {"panic", "error"}

Unwinds(o) == o = "panic"

\* cli.rs 671-676: `if fail_count > 0 { std::process::exit(1) }`, else Ok(())
ExitAlwaysOk(fails) == "ok"

ExitCode(fails) == IF fails > 0 THEN "exit1" ELSE "ok"

Init ==
    /\ \E n \in 1..MaxBuildConfigs :
         \E s \in RefPlacements(BuildPaths, n, MaxRefs) :
           \E mains \in [1..n -> BuildPaths] : configs = ConfigList(mains, s)
    /\ onDisk \in {BuildDirs, BuildDirs \ {2}}
    /\ badDirs \in SUBSET (onDisk \ {1})
    /\ max_parallel = 0
    /\ pc = "start"
    /\ grouped = NoResult
    /\ common_deps = <<>> /\ commonIdx = 0 /\ commonCache = {} /\ commonCompiled = {}
    /\ commonSaved = FALSE /\ compiledBy = {} /\ permits = 0
    /\ task = [i \in DOMAIN configs |-> "idle"]
    /\ outcome = [i \in DOMAIN configs |-> "none"]
    /\ all_results = {} /\ success_count = 0 /\ fail_count = 0 /\ depPos = 0
    /\ exitStatus = "running"
    /\ AuxIdle

\* run_build returns or the process exits
Exit(status) == pc' = "exited" /\ exitStatus' = status

\* single configuration mode, cli.rs 347-354: SkinBuilder::new(config)?
StartSingle ==
    /\ pc = "start" /\ Len(configs) = 1
    /\ \/ /\ pc' = "single"
          /\ task' = [task EXCEPT ![1] = "compiling"]
          /\ UNCHANGED exitStatus
       \/ /\ Exit("err_pipeline")
          /\ UNCHANGED task
    /\ UNCHANGED <<configs, onDisk, badDirs, grouped, common_deps, commonIdx, commonCache,
                   commonCompiled, commonSaved, compiledBy, max_parallel, permits,
                   outcome, all_results, success_count, fail_count, depPos>>
    /\ UNCHANGED auxVars

\* cli.rs 407-429: extract_common_dependencies, then for a non-empty list
\* CommonDependencyCache::new (which loads the entries a former invocation
\* saved), init()? and Aapt2::new()?
ExtractCommon ==
    /\ pc = "start" /\ Len(configs) > 1
    /\ \E order \in Orderings(CommonKeys(configs, onDisk)) :
         LET cds == extract_common_dependencies(configs, onDisk, order)
         IN  /\ common_deps' = cds
             /\ \/ /\ pc' = AfterExtract(cds)
                   /\ commonCache' \in SUBSET CommonDirs(cds)
                   /\ UNCHANGED exitStatus
                \/ /\ cds # <<>>
                   /\ Exit("err_common_init")
                   /\ UNCHANGED commonCache
    /\ UNCHANGED <<configs, onDisk, badDirs, grouped, commonIdx, commonCompiled, commonSaved,
                   compiledBy, max_parallel, permits, task, outcome, all_results,
                   success_count, fail_count, depPos>>
    /\ UNCHANGED auxVars

\* one iteration of the loop of cli.rs 432-478
CompileCommonDep ==
    /\ pc = "common" /\ commonIdx < Len(common_deps)
    /\ LET d == common_deps[commonIdx + 1].resource_dir[1]
           advance == /\ commonIdx' = commonIdx + 1
                      /\ pc' = IF commonIdx + 1 = Len(common_deps) THEN "save" ELSE "common"
                      /\ UNCHANGED exitStatus
       IN  \/ \* needs_recompile is false: the entry is fresh, the directory is as
              \* it was when the compiler accepted it
              /\ d \in commonCache /\ d \in onDisk \ badDirs
              /\ advance
              /\ UNCHANGED <<commonCache, commonCompiled>>
           \/ \* compile_dir returns Ok with success: update_entry
              /\ d \in onDisk \ badDirs
              /\ advance
              /\ commonCache' = commonCache \cup {d}
              /\ commonCompiled' = commonCompiled \cup {d}
           \/ \* compile_dir returns Ok without success: logged (cli.rs 463-471)
              /\ d \notin onDisk \ badDirs
              /\ advance
              /\ UNCHANGED <<commonCache, commonCompiled>>
           \/ \* create_dir_all, compile_dir or update_entry returns Err: `?`
              /\ Exit("err_common_compile")
              /\ UNCHANGED <<commonIdx, commonCache, commonCompiled>>
    /\ UNCHANGED <<configs, onDisk, badDirs, grouped, common_deps, commonSaved, compiledBy,
                   max_parallel, permits, task, outcome, all_results, success_count,
                   fail_count, depPos>>
    /\ UNCHANGED auxVars

\* cli.rs 481: common_dep_cache.save()?
SaveCommonCache ==
    /\ pc = "save"
    /\ \/ /\ commonSaved' = TRUE
          /\ pc' = "resolve"
          /\ UNCHANGED exitStatus
       \/ /\ Exit("err_common_save")
          /\ UNCHANGED commonSaved
    /\ UNCHANGED <<configs, onDisk, badDirs, grouped, common_deps, commonIdx, commonCache,
                   commonCompiled, compiledBy, max_parallel, permits, task, outcome,
                   all_results, success_count, fail_count, depPos>>
    /\ UNCHANGED auxVars

\* cli.rs 485-530: group_configs_by_dependencies(build_configs)?, then the
\* semaphore and one spawned task per independent configuration
GroupAndSpawn ==
    /\ pc = "resolve"
    /\ \E order \in Orderings(DepKeys(Dependencies(configs, onDisk))) :
         LET g == group_configs_by_dependencies(configs, onDisk, order)
         IN  /\ grouped' = g
             /\ IF g.ok
                THEN /\ pc' = IF g.independent # <<>> THEN "independent" ELSE "dependent"
                     /\ IF g.independent # <<>>
                        THEN max_parallel' \in MaxParallelValues
                        ELSE UNCHANGED max_parallel
                     /\ permits' = max_parallel'
                     /\ task' = [i \in DOMAIN configs |->
                                   IF i \in Range(g.independent) THEN "waiting" ELSE "idle"]
                     /\ UNCHANGED exitStatus
                ELSE /\ Exit("err_cycle")
                     /\ UNCHANGED <<max_parallel, permits, task>>
    /\ UNCHANGED <<configs, onDisk, badDirs, common_deps, commonIdx, commonCache, commonCompiled,
                   commonSaved, compiledBy, outcome, all_results,
                   success_count, fail_count, depPos>>
    /\ UNCHANGED auxVars

\* the pipeline of configuration i ends with outcome o; a spawned task drops
\* its permit when it ends
Finish(i, o) ==
    /\ task' = [task EXCEPT ![i] = "finished"]
    /\ outcome' = [outcome EXCEPT ![i] = o]
    /\ permits' = IF pc = "independent" THEN permits + 1 ELSE permits

\* the spawned task of cli.rs 518-529 up to SkinBuilder::new
Acquire(i) ==
    /\ pc = "independent" /\ task[i] = "waiting"
    /\ PermitAvailable(permits)
    /\ \/ /\ task' = [task EXCEPT ![i] = "compiling"]
          /\ permits' = permits - 1
          /\ UNCHANGED outcome
       \/ \* SkinBuilder::new returns Err: the task ends, the permit is dropped
          /\ task' = [task EXCEPT ![i] = "finished"]
          /\ outcome' = [outcome EXCEPT ![i] = "error"]
          /\ UNCHANGED permits
    /\ UNCHANGED <<configs, onDisk, badDirs, pc, grouped, common_deps, commonIdx, commonCache,
                   commonCompiled, commonSaved, compiledBy, max_parallel, all_results,
                   success_count, fail_count, depPos, exitStatus>>
    /\ UNCHANGED auxVars

\* cli.rs 565-568 and 679-682: build_single_config up to SkinBuilder::new
DepStart(i) ==
    /\ pc = "dependent" /\ task[i] = "idle"
    /\ IsNextMember(Group, depPos, i)
    /\ \/ /\ task' = [task EXCEPT ![i] = "compiling"]
          /\ UNCHANGED outcome
       \/ /\ task' = [task EXCEPT ![i] = "finished"]
          /\ outcome' = [outcome EXCEPT ![i] = "error"]
    /\ UNCHANGED <<configs, onDisk, badDirs, pc, grouped, common_deps, commonIdx, commonCache,
                   commonCompiled, commonSaved, compiledBy, max_parallel, permits,
                   all_results, success_count, fail_count, depPos, exitStatus>>
    /\ UNCHANGED auxVars

\* SkinBuilder::build, builder.rs 131-348: the loop over the resource
\* directories and the check for flat files.  The compiler runs on every
\* directory found on disk, in order; compile_all_resources `bail!`s at the
\* first one it rejects.
CompileResources(i) ==
    /\ task[i] = "compiling"
    /\ \/ \* every directory compiles
          /\ ExistingDirs(i) # <<>> /\ FirstBad(i) = 0
          /\ compiledBy' = compiledBy \cup CompiledPrefix(i, Len(ExistingDirs(i)))
          /\ task' = [task EXCEPT ![i] = "linking"]
          /\ UNCHANGED <<outcome, permits>>
       \/ \* total_flat_files = 0: Ok(BuildResult { success: false, .. })
          /\ ExistingDirs(i) = <<>>
          /\ Finish(i, "failed")
          /\ UNCHANGED compiledBy
       \/ \* Err("Compilation failed: ..") at the first rejected directory
          /\ FirstBad(i) > 0
          /\ compiledBy' = compiledBy \cup CompiledPrefix(i, FirstBad(i))
          /\ Finish(i, "error")
       \/ \* an Err before the first compilation (AAR extraction, create_dir_all)
          /\ Finish(i, "error")
          /\ UNCHANGED compiledBy
       \/ \* the first update_entry of an incremental build panics (cache.rs 104-107)
          /\ ExistingDirs(i) # <<>> /\ FirstBad(i) # 1
          /\ compiledBy' = compiledBy \cup CompiledPrefix(i, 1)
          /\ Finish(i, "panic")
    /\ UNCHANGED <<configs, onDisk, badDirs, pc, grouped, common_deps, commonIdx, commonCache,
                   commonCompiled, commonSaved, max_parallel, all_results,
                   success_count, fail_count, depPos, exitStatus>>
    /\ UNCHANGED auxVars

\* SkinBuilder::build, builder.rs 350-434: cache save, manifest, link, cleanup
Link(i) ==
    /\ task[i] = "linking"
    /\ \E o \in {"success", "failed", "error"} : Finish(i, o)
    /\ UNCHANGED <<configs, onDisk, badDirs, pc, grouped, common_deps, commonIdx, commonCache,
                   commonCompiled, commonSaved, compiledBy, max_parallel, all_results,
                   success_count, fail_count, depPos, exitStatus>>
    /\ UNCHANGED auxVars

\* what the scheduler does with an ended pipeline: an Ok(result) is pushed, an
\* Err or a JoinError is counted
Collect(i) ==
    /\ task' = [task EXCEPT ![i] = "joined"]
    /\ IF outcome[i] \in {"success", "failed"}
       THEN /\ all_results' = all_results \cup {<<i, outcome[i] = "success">>}
            /\ UNCHANGED fail_count
       ELSE /\ fail_count' = fail_count + 1
            /\ UNCHANGED all_results

\* the loop over the results ended at the first result
JoinLoopEndsEarly(i) == TRUE

\* tasks.join_next() returns None (cli.rs 532): every spawned task but i, which
\* is being collected, has been collected
JoinSetEmpty(i) == \A j \in Range(grouped.independent) \ {i} : task[j] = "joined"

\* one iteration of `while let Some(result) = tasks.join_next().await`
\* (cli.rs 532-554); the loop ends when the set is empty
Join(i) ==
    /\ pc = "independent" /\ task[i] = "finished"
    /\ Collect(i)
    /\ pc' = IF JoinSetEmpty(i) THEN "dependent" ELSE "independent"
    /\ UNCHANGED <<configs, onDisk, badDirs, grouped, common_deps, commonIdx, commonCache,
                   commonCompiled, commonSaved, compiledBy, max_parallel, permits,
                   outcome, success_count, depPos, exitStatus>>
    /\ UNCHANGED auxVars

\* the match of cli.rs 568-584 on the awaited build of a group member
DepCollect(i) ==
    /\ pc = "dependent" /\ task[i] = "finished"
    /\ IF Unwinds(outcome[i])
       THEN /\ Exit("panic")
            /\ UNCHANGED <<task, all_results, fail_count, depPos>>
       ELSE /\ Collect(i)
            /\ depPos' = depPos + 1
            /\ UNCHANGED <<pc, exitStatus>>
    /\ UNCHANGED <<configs, onDisk, badDirs, grouped, common_deps, commonIdx, commonCache,
                   commonCompiled, commonSaved, compiledBy, max_parallel, permits,
                   outcome, success_count>>
    /\ UNCHANGED auxVars

\* the counting loop skips the results with success = false
NoFailedResults(results) == 0

\* cli.rs 588-595: the results with success = false add to fail_count
FailedResults(results) == Cardinality({r \in results : ~r[2]})

\* cli.rs 588-595 and 671-676: the counting loop and the exit status
Aggregate ==
    /\ pc = "dependent" /\ depPos = Len(Group)
    /\ success_count' = success_count + Cardinality({r \in all_results : r[2]})
    /\ fail_count' = fail_count + FailedResults(all_results)
    /\ Exit(ExitCode(fail_count'))
    /\ UNCHANGED <<configs, onDisk, badDirs, grouped, common_deps, commonIdx, commonCache,
                   commonCompiled, commonSaved, compiledBy, max_parallel, permits,
                   task, outcome, all_results, depPos>>
    /\ UNCHANGED auxVars

\* single configuration mode, cli.rs 355-391: `builder.build().await?`
FinishSingle ==
    /\ pc = "single" /\ task[1] = "finished"
    /\ task' = [task EXCEPT ![1] = "joined"]
    /\ Exit(CASE outcome[1] = "success" -> "ok"
              [] outcome[1] = "failed" -> "exit1"
              [] outcome[1] = "error" -> "err_pipeline"
              [] OTHER -> "panic")
    /\ UNCHANGED <<configs, onDisk, badDirs, grouped, common_deps, commonIdx, commonCache,
                   commonCompiled, commonSaved, compiledBy, max_parallel, permits,
                   outcome, all_results, success_count, fail_count, depPos>>
    /\ UNCHANGED auxVars

Next ==
    \/ StartSingle
    \/ ExtractCommon
    \/ CompileCommonDep
    \/ SaveCommonCache
    \/ GroupAndSpawn
    \/ \E i \in DOMAIN configs : Acquire(i)
    \/ \E i \in DOMAIN configs : DepStart(i)
    \/ \E i \in DOMAIN configs : CompileResources(i)
    \/ \E i \in DOMAIN configs : Link(i)
    \/ \E i \in DOMAIN configs : Join(i)
    \/ \E i \in DOMAIN configs : DepCollect(i)
    \/ Aggregate
    \/ FinishSingle

Spec == Init /\ [][Next]_vars

(* --------------------- properties of the build -------------------------- *)
\* multi configuration mode (the else branch of cli.rs 347)
MultiMode == Len(configs) > 1

\* pipelines whose build() is executing
Running == {i \in DOMAIN configs : task[i] \in {"compiling", "linking"}}

\* group_configs_by_dependencies has returned Ok in this invocation
Grouped == grouped.ok

C5_CompiledOnce ==
    \A k \in DOMAIN common_deps :
        LET d == common_deps[k].resource_dir[1]
        IN  d \in commonCompiled =>
                \A i \in Range(common_deps[k].dependent_configs) : <<i, d>> \notin compiledBy

\* C6: the members of the dependent group are built one at a time in the
\* order of the group: a member is started only when every member before it
\* has been built and collected (so every provider before its consumers), and
\* at most one member is running.
C6_OneAtATime ==
    Grouped =>
        /\ \A k \in DOMAIN Group :
              task[Group[k]] # "idle" => \A m \in 1..(k - 1) : task[Group[m]] = "joined"
        /\ \A c, p \in Range(Group) :
              (DependsOn(c, p) /\ task[c] # "idle") => task[p] = "joined"
        /\ Cardinality(Running \cap Range(Group)) <= 1

\* the provider has been built and collected and its consumer is running
C6_Witness ==
    /\ Grouped /\ Len(Group) >= 2
    /\ DependsOn(Group[2], Group[1])
    /\ task[Group[1]] = "joined" /\ task[Group[2]] = "compiling"

\* C7: the independent configurations that hold a permit and have not finished
\* are never more than max_parallel, the limit resolved from the command line
\* value, else the configuration value, else the CPU count; every permit is
\* either available or held by one of them.
C7_AtMostMaxParallel ==
    (Grouped /\ pc = "independent") =>
        /\ Running \subseteq Range(grouped.independent)
        /\ Cardinality(Running) <= max_parallel
        /\ permits + Cardinality(Running) = max_parallel
        /\ max_parallel \in MaxParallelValues

\* with a limit of one, one independent pipeline runs and the other waits
C7_Witness ==
    /\ Grouped /\ pc = "independent" /\ max_parallel = 1
    /\ Len(grouped.independent) = 2
    /\ task[grouped.independent[1]] = "waiting"
    /\ task[grouped.independent[2]] = "linking"
    /\ permits = 0

C9_ErrorBecomesResult ==
    /\ \A i \in DOMAIN configs :
          (task[i] = "joined" /\ outcome[i] = "error") => <<i, FALSE>> \in all_results
    /\ exitStatus # "err_pipeline"

\* C10: a failure while compiling a common dependency does not end the
\* invocation, and a common dependency the compiler rejects has no cache entry
\* once the loop has handled it.
C10_CommonFailureNotFatal ==
    /\ exitStatus # "err_common_compile"
    /\ \A k \in 1..commonIdx :
          common_deps[k].resource_dir[1] \in badDirs =>
              common_deps[k].resource_dir[1] \notin commonCache

\* C11: when the invocation ends with the cycle error, no compilation has been
\* made in it: neither the common phase nor a pipeline has compiled anything.
C11_CycleBeforeCompile ==
    exitStatus = "err_cycle" => (commonCompiled = {} /\ compiledBy = {})

\* C12: when the invocation has ended, its exit status is zero ("ok") exactly
\* when every configuration was built successfully; it is non-zero as soon as
\* one configuration failed, whatever the others did.
C12_ExitStatus ==
    pc = "exited" =>
        /\ exitStatus = "ok" <=> \A i \in DOMAIN configs : outcome[i] = "success"
        /\ (\E i \in DOMAIN configs : outcome[i] \in {"failed", "error", "panic"})
               => exitStatus # "ok"

\* one configuration succeeded, the other returned a failed result, and the
\* process exited with status 1
C12_Witness ==
    /\ pc = "exited" /\ MultiMode /\ exitStatus = "exit1"
    /\ \E i, j \in DOMAIN configs : outcome[i] = "success" /\ outcome[j] = "failed"

(* ------------- specification of extract_common_dependencies ------------- *)
InitExtract ==
    /\ \E n \in 0..MaxConfigs :
         \E s \in RefPlacements(Paths, n, MaxExtractRefs) :
           \E mains \in [1..n -> Paths] : configs = ConfigList(mains, s)
    /\ onDisk \in SUBSET {1}
    /\ badDirs = {}
    /\ pc = "call"
    /\ grouped = NoResult
    /\ BuildIdle
    /\ AuxIdle

\* one call of extract_common_dependencies(&configs)
CallExtract ==
    /\ pc = "call"
    /\ \E order \in Orderings(CommonKeys(configs, onDisk)) :
          common_deps' = extract_common_dependencies(configs, onDisk, order)
    /\ pc' = "returned"
    /\ UNCHANGED <<configs, onDisk, badDirs, grouped, commonIdx, commonCache,
                   commonCompiled, commonSaved, compiledBy, max_parallel, permits,
                   task, outcome, all_results, success_count, fail_count, depPos,
                   exitStatus>>
    /\ UNCHANGED auxVars

NextExtract == CallExtract

SpecExtract == InitExtract /\ [][NextExtract]_vars

\* the configurations that declare the normalized directory as an additional
\* resource directory
Declarers(key) ==
    {i \in DOMAIN configs :
        \E k \in DOMAIN configs[i].additional_resource_dirs :
            normalize_path(configs[i].additional_resource_dirs[k], onDisk) = key}

\* the normalized additional directories of all configurations
DeclaredKeys == UsageKeys(configs, onDisk)

\* C14: the call returns the empty list for zero or one configuration; when
\* exactly the two configurations a and b declare some additional directory
\* and every other additional directory is declared by at most one
\* configuration, it returns exactly one CommonDependency, whose
\* dependent_configs are the two indices a and b.
C14_SingleShared ==
    pc = "returned" =>
        /\ Len(configs) <= 1 => common_deps = <<>>
        /\ \A key \in DeclaredKeys :
              (/\ Cardinality(Declarers(key)) = 2
               /\ \A other \in DeclaredKeys \ {key} : Cardinality(Declarers(other)) <= 1)
              => /\ Len(common_deps) = 1
                 /\ Len(common_deps[1].dependent_configs) = 2
                 /\ Range(common_deps[1].dependent_configs) = Declarers(key)

\* C15: every CommonDependency returned is declared by at least two different
\* configurations and lists each of them once in dependent_configs.
C15_TwoDistinctConfigs ==
    pc = "returned" =>
        \A k \in DOMAIN common_deps :
            LET dc == common_deps[k].dependent_configs
            IN  /\ Cardinality(Range(dc)) >= 2
                /\ Len(dc) = Cardinality(Range(dc))

(* ------------- resource_priority.rs and the link inputs ---------------- *)
\* a ResourcePriority is <<"Library", idx>>, <<"Main", 0>> or <<"Additional", idx>>
MainValue == 1000
AdditionalBase == 2000

Main == <<"Main", 0>>
Library(idx) == <<"Library", idx>>
Additional(idx) == <<"Additional", idx>>

\* the index alone, without the offsets of Main and Additional
valueOfIndex(priority) == priority[2]

\* ResourcePriority::value

value(priority) ==
    CASE priority[1] = "Library" -> priority[2]
      [] priority[1] = "Main" -> MainValue
      [] priority[1] = "Additional" -> AdditionalBase + priority[2]

\* the Library indices the encoding is documented for ("Library (0-999)",
\* resource_priority.rs 27)
ValidLibraryIndex(idx) == idx < MainValue

\* indices of extracted AARs that can carry resources: the first ones, and the
\* ones around the top of the documented range
LibraryIndices ==
    (0..MaxIndex) \cup ((MainValue - 2)..(MainValue + 1))

AdditionalIndices == 0..MaxIndex

\* slice::sort_by_key(|(priority, _, _)| priority.value()): a stable sort
RECURSIVE SortByValueFrom(_, _)
SortByValueFrom(entries, k) ==
    IF k = 0 THEN <<>>
    ELSE LET before == SortByValueFrom(entries, k - 1)
             \* the element goes behind every element whose key is not greater
             behind == SelectSeq(before, LAMBDA x : value(x[1]) <= value(entries[k][1]))
             after == SelectSeq(before, LAMBDA x : value(x[1]) > value(entries[k][1]))
         IN  behind \o <<entries[k]>> \o after

sort_by_key(entries) == SortByValueFrom(entries, Len(entries))

\* the flat files compiled from the directory of a priority (one per directory)
FlatFilesOf(priority) == << <<priority, "flat">> >>

\* the directories that produce flat files, in the order build() pushes them
\* to resource_dirs_with_priority (builder.rs 177-215): main, AARs by index,
\* additional by index
PushedEntries(main, libs, adds) ==
    (IF main THEN << <<Main, FlatFilesOf(Main)>> >> ELSE <<>>)
      \o [k \in 1..Cardinality(libs) |->
            LET idx == CHOOSE i \in libs : Cardinality({m \in libs : m < i}) = k - 1
            IN  <<Library(idx), FlatFilesOf(Library(idx))>>]
      \o [k \in 1..Cardinality(adds) |->
            LET idx == CHOOSE i \in adds : Cardinality({m \in adds : m < i}) = k - 1
            IN  <<Additional(idx), FlatFilesOf(Additional(idx))>>]

\* builder.rs 267-269
NeverHasLibrary(entries) == FALSE

has_library(entries) == \E k \in DOMAIN entries : entries[k][1][1] = "Library"

\* the loop of builder.rs 271-315 over the sorted entries
RECURSIVE SplitFrom(_, _, _, _)
SplitFrom(entries, has_lib, base, overlays) ==
    IF entries = <<>> THEN [base |-> base, overlays |-> overlays]
    ELSE LET priority == Head(entries)[1]
             files == Head(entries)[2]
         IN  IF priority[1] = "Library"
             THEN SplitFrom(Tail(entries), has_lib, base \o files, overlays)
             ELSE IF priority[1] = "Main" /\ ~has_lib
             THEN SplitFrom(Tail(entries), has_lib, base \o files, overlays)
             ELSE SplitFrom(Tail(entries), has_lib, base, Append(overlays, files))

InitPriority ==
    /\ \E main \in BOOLEAN :
         \E libs \in SUBSET LibraryIndices :
           \E adds \in SUBSET AdditionalIndices :
             \* resource_dirs_with_priority is sorted (builder.rs 218) before
             \* the directories are compiled in that order
             flat_files_by_priority = sort_by_key(PushedEntries(main, libs, adds))
    /\ base_flat_files = <<>>
    /\ overlay_flat_files = <<>>
    /\ CacheIdle /\ ShareIdle /\ PipeIdle /\ ScratchIdle /\ TrackIdle /\ FindIdle /\ LinkIdle /\ CommonIdle /\ AarIdle /\ IncIdle /\ SubIdle
    /\ configs = <<>> /\ onDisk = {} /\ badDirs = {}
    /\ pc = "call"
    /\ grouped = NoResult
    /\ BuildIdle

\* builder.rs 258-315: sort the entries and separate base from overlays
SortAndSplit ==
    /\ pc = "call"
    /\ LET sorted == sort_by_key(flat_files_by_priority)
           split == SplitFrom(sorted, has_library(sorted), <<>>, <<>>)
       IN  /\ flat_files_by_priority' = sorted
           /\ base_flat_files' = split.base
           /\ overlay_flat_files' = split.overlays
    /\ pc' = "returned"
    /\ UNCHANGED <<configs, onDisk, badDirs, grouped>>
    /\ UNCHANGED buildVars
    /\ UNCHANGED <<subVars, incVars, aarVars, commonVars, linkVars, findVars, trackVars, cacheVars, shareVars, pipeVars, scratchVars>>

NextPriority == SortAndSplit

SpecPriority == InitPriority /\ [][NextPriority]_vars

\* the priorities of the entries
EntryPriorities == {flat_files_by_priority[k][1] : k \in DOMAIN flat_files_by_priority}

IsValid(priority) == priority[1] = "Library" => ValidLibraryIndex(priority[2])

\* C16: for priorities with Library indices in the documented range, value()
\* puts every Library below Main and Main below every Additional, and within
\* Library and within Additional a smaller index below the next one; the
\* entries sorted by it are in that order.
C16_ValueEmbedsOrder ==
    pc = "returned" =>
        /\ \A p, q \in EntryPriorities :
              (IsValid(p) /\ IsValid(q)) =>
                /\ (p[1] = "Library" /\ q = Main) => value(p) < value(q)
                /\ (p = Main /\ q[1] = "Additional") => value(p) < value(q)
                /\ (p[1] = "Library" /\ q[1] = "Additional") => value(p) < value(q)
                /\ (p[1] = q[1] /\ p[1] # "Main" /\ q[2] = p[2] + 1) => value(p) < value(q)
        /\ \A k \in 1..(Len(flat_files_by_priority) - 1) :
              value(flat_files_by_priority[k][1]) <= value(flat_files_by_priority[k + 1][1])

\* Library(998), Library(999), Main, Additional(0) and Additional(1) were sorted
C16_Witness ==
    /\ pc = "returned"
    /\ {Library(MainValue - 2), Library(MainValue - 1), Main, Additional(0), Additional(1)}
          \subseteq EntryPriorities
    /\ \A p \in EntryPriorities : IsValid(p)

\* the flat files of the entries with the given tag, by ascending index
FilesByIndex(tag) ==
    LET idxs == {p[2] : p \in {q \in EntryPriorities : q[1] = tag}}
    IN  [k \in 1..Cardinality(idxs) |->
            FlatFilesOf(<<tag, CHOOSE i \in idxs : Cardinality({m \in idxs : m < i}) = k - 1>>)]

MainFiles == IF Main \in EntryPriorities THEN <<FlatFilesOf(Main)>> ELSE <<>>

\* C17: when some Library directory produced flat files the base is exactly
\* the Library flat files (by ascending index) and the overlays are Main (when
\* it produced any) followed by the Additional directories by ascending index,
\* one overlay set each; otherwise the base is the Main flat files and the
\* overlays are the Additional directories by ascending index.
C17_BaseAndOverlays ==
    pc = "returned" =>
        IF FilesByIndex("Library") # <<>>
        THEN /\ base_flat_files = Concat(FilesByIndex("Library"))
             /\ overlay_flat_files = MainFiles \o FilesByIndex("Additional")
        ELSE /\ base_flat_files = Concat(MainFiles)
             /\ overlay_flat_files = FilesByIndex("Additional")

\* two Library directories, Main and two Additional directories were split
C17_Witness ==
    /\ pc = "returned"
    /\ EntryPriorities = {Library(0), Library(1), Main, Additional(0), Additional(1)}
    /\ Len(base_flat_files) = 2 /\ Len(overlay_flat_files) = 3

(* ------------------- cache.rs: the two persisted caches ----------------- *)
\* bytes of file contents: the byte the file names are made of
ContentBytes == {1}

\* relative paths of the files of a resource directory, as bytes: a file and
\* a file whose name extends the name of the first
Names == {<<1>>, <<1, 1>>}

\* contents of a resource file
Contents == SeqsUpTo(ContentBytes, MaxContentLen)

\* states of a resource directory: the files beneath it and their contents
DirStates == UNION {[S -> Contents] : S \in SUBSET Names}

CurrentVersion == "1.0"
Versions == {CurrentVersion, "0.9"}

\* Sha256 over the bytes fed to the hasher, taken as collision free: the
\* digest stands for exactly the byte sequence that was fed
Sha256(bytes) == <<"sha256", bytes>>

\* the hash that identifies no content at all
ConstantHash(content) == Sha256(<<>>)

\* BuildCache::calculate_hash of a readable file
calculate_hash(content) == Sha256(content)

\* Ord of two relative paths: byte-wise lexicographic, a prefix first
RECURSIVE PathLess(_, _)
PathLess(a, b) ==
    IF b = <<>> THEN FALSE
    ELSE IF a = <<>> THEN TRUE
    ELSE IF Head(a) # Head(b) THEN Head(a) < Head(b)
    ELSE PathLess(Tail(a), Tail(b))

\* files.sort()
RECURSIVE SortPathsFrom(_, _)
SortPathsFrom(files, k) ==
    IF k = 0 THEN <<>>
    ELSE LET before == SortPathsFrom(files, k - 1)
         IN  SelectSeq(before, LAMBDA x : ~PathLess(files[k], x))
               \o <<files[k]>>
               \o SelectSeq(before, LAMBDA x : PathLess(files[k], x))

SortPaths(files) == SortPathsFrom(files, Len(files))

\* the bytes the loop of calculate_directory_hash feeds to the hasher: for
\* every file its relative path and then its content
RECURSIVE FedBytes(_, _)
FedBytes(files, dir) ==
    IF files = <<>> THEN <<>>
    ELSE Head(files) \o dir[Head(files)] \o FedBytes(Tail(files), dir)

\* CommonDependencyCache::calculate_directory_hash; walk is the order in which
\* WalkDir enumerates the files
calculate_directory_hash(dir, walk) == Sha256(FedBytes(SortPaths(walk), dir))

\* the orders in which the files of a directory can be enumerated
WalkOrders(dir) == Orderings(DOMAIN dir)

\* the hash of an entry recorded for a content that is gone
StaleHash == Sha256(<<0>>)

\* what read_to_string and serde_json::from_str make of the persisted file;
\* hashes are the hashes its entry can carry
PersistedFiles(hashes) ==
    {[state |-> s, version |-> CurrentVersion, entries |-> <<>>] :
        s \in {"absent", "unreadable", "unparsable"}}
      \cup {[state |-> "data", version |-> v, entries |-> e] :
              v \in Versions, e \in Options(hashes)}

empty_cache == [version |-> CurrentVersion, entries |-> <<>>]

\* the version test of new() left out
AnyVersion(version) == TRUE

\* data.version == "1.0"
IsCurrentVersion(version) == version = CurrentVersion

\* BuildCache::new / CommonDependencyCache::new: the cache loaded from file
LoadCache(file) ==
    IF file.state = "data" /\ IsCurrentVersion(file.version)
    THEN [version |-> file.version, entries |-> file.entries]
    ELSE empty_cache

\* the hash of the resource as it is now (<<>> when the file cannot be read)
CurrentHash(walk) ==
    IF cacheKind = "file"
    THEN IF fileContent = <<>> THEN <<>> ELSE <<calculate_hash(fileContent[1])>>
    ELSE <<calculate_directory_hash(dirFiles, walk)>>

\* needs_recompile of the resource: "true", "false", or "err" when
\* calculate_hash fails
needs_recompile(walk) ==
    IF cache.entries = <<>> THEN "true"
    ELSE IF ~flatExists THEN "true"
    ELSE IF CurrentHash(walk) = <<>> THEN "err"
    ELSE IF CurrentHash(walk)[1] # cache.entries[1] THEN "true" ELSE "false"

\* the resource as it is now
Resource == IF cacheKind = "file" THEN fileContent ELSE <<dirFiles>>

InitCache ==
    /\ cacheKind \in {"file", "dir"}
    /\ \E c \in Options(Contents) : fileContent = IF cacheKind = "file" THEN c ELSE <<>>
    /\ \E d \in DirStates : dirFiles = IF cacheKind = "dir" THEN d ELSE <<>>
    /\ flatExists \in BOOLEAN
    /\ \E walk \in WalkOrders(dirFiles) :
          cache_file \in PersistedFiles(Range(CurrentHash(walk)) \cup {StaleHash})
    /\ cache = empty_cache
    /\ recorded = <<>>
    /\ changedSince = FALSE
    /\ PriorityIdle /\ ShareIdle /\ PipeIdle /\ ScratchIdle /\ TrackIdle /\ FindIdle /\ LinkIdle /\ CommonIdle /\ AarIdle /\ IncIdle /\ SubIdle
    /\ configs = <<>> /\ onDisk = {} /\ badDirs = {}
    /\ pc = "call"
    /\ grouped = NoResult
    /\ BuildIdle

\* BuildCache::new, CommonDependencyCache::new: always Ok
New ==
    /\ pc = "call"
    /\ cache' = LoadCache(cache_file)
    /\ pc' = "ready"
    /\ UNCHANGED <<configs, onDisk, badDirs, grouped>>
    /\ UNCHANGED buildVars
    /\ UNCHANGED <<subVars, incVars, aarVars, commonVars, linkVars, findVars, trackVars, scratchVars, pipeVars, shareVars, priorityVars, cacheKind, cache_file, fileContent, dirFiles,
                   flatExists, recorded, changedSince>>

\* update_entry(resource, flat files): Err (nothing recorded) when the file
\* cannot be read
UpdateEntry ==
    /\ pc = "ready"
    /\ \E walk \in WalkOrders(dirFiles) :
          /\ CurrentHash(walk) # <<>>
          /\ cache' = [cache EXCEPT !.entries = CurrentHash(walk)]
    /\ recorded' = <<[resource |-> Resource, artifact |-> flatExists]>>
    /\ changedSince' = FALSE
    /\ UNCHANGED <<configs, onDisk, badDirs, pc, grouped>>
    /\ UNCHANGED buildVars
    /\ UNCHANGED <<subVars, incVars, aarVars, commonVars, linkVars, findVars, trackVars, scratchVars, pipeVars, shareVars, priorityVars, cacheKind, cache_file, fileContent, dirFiles, flatExists>>

\* the resource file is written with another content, or deleted
ChangeFile ==
    /\ pc = "ready"
    /\ cacheKind = "file"
    /\ \E c \in Options(Contents) :
          /\ c # fileContent
          /\ fileContent' = c
    /\ changedSince' = TRUE
    /\ UNCHANGED <<configs, onDisk, badDirs, pc, grouped>>
    /\ UNCHANGED buildVars
    /\ UNCHANGED <<subVars, incVars, aarVars, commonVars, linkVars, findVars, trackVars, scratchVars, pipeVars, shareVars, priorityVars, cacheKind, cache_file, cache, dirFiles, flatExists, recorded>>

\* a file of the resource directory is written with another content, created
\* or removed
ChangeDir ==
    /\ pc = "ready"
    /\ cacheKind = "dir"
    /\ \E name \in Names :
          \/ \E c \in Contents :
                /\ name \in DOMAIN dirFiles => dirFiles[name] # c
                /\ dirFiles' = [n \in DOMAIN dirFiles \cup {name} |->
                                  IF n = name THEN c ELSE dirFiles[n]]
          \/ /\ name \in DOMAIN dirFiles
             /\ dirFiles' = [n \in DOMAIN dirFiles \ {name} |-> dirFiles[n]]
    /\ changedSince' = TRUE
    /\ UNCHANGED <<configs, onDisk, badDirs, pc, grouped>>
    /\ UNCHANGED buildVars
    /\ UNCHANGED <<subVars, incVars, aarVars, commonVars, linkVars, findVars, trackVars, scratchVars, pipeVars, shareVars, priorityVars, cacheKind, cache_file, cache, fileContent, flatExists, recorded>>

\* the compiled artifact is deleted from disk
DeleteArtifact ==
    /\ pc = "ready"
    /\ flatExists
    /\ flatExists' = FALSE
    /\ changedSince' = TRUE
    /\ UNCHANGED <<configs, onDisk, badDirs, pc, grouped>>
    /\ UNCHANGED buildVars
    /\ UNCHANGED <<subVars, incVars, aarVars, commonVars, linkVars, findVars, trackVars, scratchVars, pipeVars, shareVars, priorityVars, cacheKind, cache_file, cache, fileContent, dirFiles, recorded>>

\* the compiler writes the artifact
WriteArtifact ==
    /\ pc = "ready"
    /\ ~flatExists
    /\ flatExists' = TRUE
    /\ UNCHANGED <<configs, onDisk, badDirs, pc, grouped>>
    /\ UNCHANGED buildVars
    /\ UNCHANGED <<subVars, incVars, aarVars, commonVars, linkVars, findVars, trackVars, scratchVars, pipeVars, shareVars, priorityVars, cacheKind, cache_file, cache, fileContent, dirFiles,
                   recorded, changedSince>>

NextCache ==
    \/ New
    \/ UpdateEntry
    \/ ChangeFile
    \/ ChangeDir
    \/ DeleteArtifact
    \/ WriteArtifact

SpecCache == InitCache /\ [][NextCache]_vars

\* an entry of the resource was recorded by update_entry
Recorded == pc = "ready" /\ recorded # <<>>

\* the content (or the directory state) recorded by the last update_entry
RecordedResource == recorded[1].resource

\* C18 as stated: after update_entry(file, artifact) with an existing
\* artifact, needs_recompile(file) is false as long as neither the content
\* changed nor the artifact was deleted, and from the first such change on it
\* is not false until the entry is recorded again.
C18_RoundTrip ==
    (Recorded /\ cacheKind = "file" /\ recorded[1].artifact) =>
        \A walk \in WalkOrders(dirFiles) :
            IF changedSince THEN needs_recompile(walk) # "false"
            ELSE needs_recompile(walk) = "false"

\* C18 amended: after update_entry(file, artifact), needs_recompile(file) is
\* false exactly while the artifact exists and the file holds the recorded
\* content (so in every state before the first change or deletion, and again
\* after the content was changed back or the artifact restored); it is an
\* error when the artifact exists and the file cannot be read, and true
\* otherwise.
C18_FalseWhileSameContent ==
    (Recorded /\ cacheKind = "file") =>
        \A walk \in WalkOrders(dirFiles) :
            /\ needs_recompile(walk) = "false" <=>
                  (flatExists /\ fileContent = RecordedResource)
            /\ needs_recompile(walk) = "err" <=> (flatExists /\ fileContent = <<>>)
            /\ (recorded[1].artifact /\ ~changedSince) => needs_recompile(walk) = "false"

\* the file was changed and changed back after its entry was recorded, and
\* the artifact exists: needs_recompile is false
C18_Witness ==
    /\ Recorded /\ cacheKind = "file"
    /\ recorded[1].artifact /\ changedSince
    /\ flatExists /\ fileContent = RecordedResource
    /\ needs_recompile(<<>>) = "false"

\* C19: the directory hash is the same for every enumeration order of the
\* files, and the hash of the directory differs from the hash recorded for an
\* earlier state of it if and only if the two states differ in the set of
\* files or in the content of a file.
C19_HashIffSameFiles ==
    (Recorded /\ cacheKind = "dir") =>
        /\ \A w1, w2 \in WalkOrders(dirFiles) :
              calculate_directory_hash(dirFiles, w1) = calculate_directory_hash(dirFiles, w2)
        /\ \A walk \in WalkOrders(dirFiles) :
              (calculate_directory_hash(dirFiles, walk) # cache.entries[1])
                 <=> (dirFiles # RecordedResource[1])

\* the persisted file cannot be read, cannot be parsed, or carries another
\* version
BadPersisted ==
    \/ cache_file.state \in {"unreadable", "unparsable"}
    \/ cache_file.state = "data" /\ cache_file.version # CurrentVersion

\* C20: new() never fails, and a cache constructed from a persisted file that
\* is unreadable, unparsable or of another version is empty: until an entry
\* is recorded, needs_recompile is true whatever the state of the resource
\* and of the artifact.
C20_BadFileGivesEmptyCache ==
    /\ pc = "call" => ENABLED New
    /\ (pc = "ready" /\ recorded = <<>> /\ BadPersisted) =>
          /\ cache = empty_cache
          /\ \A walk \in WalkOrders(dirFiles) : needs_recompile(walk) = "true"

\* a cache was constructed from a file of another version whose entry matches
\* the resource as it is, with the artifact on disk
C20_Witness ==
    /\ pc = "ready" /\ recorded = <<>>
    /\ cache_file.state = "data" /\ cache_file.version # CurrentVersion
    /\ flatExists
    /\ \E walk \in WalkOrders(dirFiles) : cache_file.entries = CurrentHash(walk)
    /\ cache_file.entries # <<>>

(* -------- cli.rs / builder.rs: the caches of concurrent pipelines ------- *)
Packages == {"com.a", "com.b"}
CacheDirs == {"out/.build-cache", "cache"}

\* builder.rs 111-115 and cache.rs 31: the persisted file of the cache of a
\* configuration
BuildCacheFile(i) == <<cache_dirs[i], package_name[i], "build-cache.json">>

\* cli.rs 418-422 and cache.rs 178: the persisted file of the common cache
CommonCacheFile == <<cache_dirs[1], "common-deps", "common-dep-cache.json">>

CacheFiles ==
    {<<d, p, "build-cache.json">> : d \in CacheDirs, p \in Packages}
      \cup {<<d, "common-deps", "common-dep-cache.json">> : d \in CacheDirs}

\* the tasks that hold a permit and have not returned
Active == {i \in DOMAIN builder : builder[i].at \in {"acquired", "new", "compiled", "saved"}}

\* the main task is numbered 0 in the record of a write
MainTask == 0

\* a write of a persisted cache file, as it is remembered
WriteOf(file, by) ==
    [file |-> file, by |-> by, phase |-> pc, concurrent |-> Active \ {by}]

InitShared ==
    /\ \E n \in 2..MaxBuildConfigs :
          /\ package_name \in [1..n -> Packages]
          /\ cache_dirs \in [1..n -> CacheDirs]
          /\ builder = [i \in 1..n |-> [at |-> "unspawned", cache |-> {}]]
    /\ sem = 0
    /\ cacheFiles = [f \in CacheFiles |-> {}]
    /\ writes = {}
    /\ PriorityIdle /\ CacheIdle /\ PipeIdle /\ ScratchIdle /\ TrackIdle /\ FindIdle /\ LinkIdle /\ CommonIdle /\ AarIdle /\ IncIdle /\ SubIdle
    /\ configs = <<>> /\ onDisk = {} /\ badDirs = {}
    /\ pc = "common"
    /\ grouped = NoResult
    /\ BuildIdle

\* cli.rs 425-481: the common dependencies are compiled, their entries
\* recorded and the common cache saved by the main task
CommonPhase ==
    /\ pc = "common"
    /\ cacheFiles' = [cacheFiles EXCEPT ![CommonCacheFile] = @ \cup {"common"}]
    /\ writes' = writes \cup {WriteOf(CommonCacheFile, MainTask)}
    /\ pc' = "spawn"
    /\ UNCHANGED <<package_name, cache_dirs, sem, builder>>
    /\ UNCHANGED <<configs, onDisk, badDirs, grouped>>
    /\ UNCHANGED buildVars
    /\ UNCHANGED <<subVars, incVars, aarVars, commonVars, linkVars, findVars, trackVars, priorityVars, cacheVars, pipeVars, scratchVars>>

\* cli.rs 507-530: the semaphore is created and one task per independent
\* configuration is spawned (with or without a common phase before)
SpawnAll ==
    /\ pc \in {"common", "spawn"}
    /\ \E m \in 1..MaxParallel : sem' = m
    /\ builder' = [i \in DOMAIN builder |-> [builder[i] EXCEPT !.at = "spawned"]]
    /\ pc' = "independent"
    /\ UNCHANGED <<package_name, cache_dirs, cacheFiles, writes>>
    /\ UNCHANGED <<configs, onDisk, badDirs, grouped>>
    /\ UNCHANGED buildVars
    /\ UNCHANGED <<subVars, incVars, aarVars, commonVars, linkVars, findVars, trackVars, priorityVars, cacheVars, pipeVars, scratchVars>>

\* cli.rs 519: sem.acquire().await
TaskAcquire(i) ==
    /\ pc = "independent"
    /\ builder[i].at = "spawned"
    /\ sem > 0
    /\ sem' = sem - 1
    /\ builder' = [builder EXCEPT ![i].at = "acquired"]
    /\ UNCHANGED <<package_name, cache_dirs, cacheFiles, writes, pc>>
    /\ UNCHANGED <<configs, onDisk, badDirs, grouped>>
    /\ UNCHANGED buildVars
    /\ UNCHANGED <<subVars, incVars, aarVars, commonVars, linkVars, findVars, trackVars, priorityVars, cacheVars, pipeVars, scratchVars>>

\* SkinBuilder::new: BuildCache::new loads the persisted file
BuilderNew(i) ==
    /\ builder[i].at = "acquired"
    /\ builder' = [builder EXCEPT ![i] = [at |-> "new", cache |-> cacheFiles[BuildCacheFile(i)]]]
    /\ UNCHANGED <<package_name, cache_dirs, sem, cacheFiles, writes, pc>>
    /\ UNCHANGED <<configs, onDisk, badDirs, grouped>>
    /\ UNCHANGED buildVars
    /\ UNCHANGED <<subVars, incVars, aarVars, commonVars, linkVars, findVars, trackVars, priorityVars, cacheVars, pipeVars, scratchVars>>

\* compile_all_resources: update_entry on the cache of this builder for the
\* resource files of configuration i
BuilderCompile(i) ==
    /\ builder[i].at = "new"
    /\ builder' = [builder EXCEPT ![i] = [at |-> "compiled", cache |-> @.cache \cup {i}]]
    /\ UNCHANGED <<package_name, cache_dirs, sem, cacheFiles, writes, pc>>
    /\ UNCHANGED <<configs, onDisk, badDirs, grouped>>
    /\ UNCHANGED buildVars
    /\ UNCHANGED <<subVars, incVars, aarVars, commonVars, linkVars, findVars, trackVars, priorityVars, cacheVars, pipeVars, scratchVars>>

\* builder.rs 357-360: cache.save() writes the whole cache to the file
BuilderSave(i) ==
    /\ builder[i].at = "compiled"
    /\ cacheFiles' = [cacheFiles EXCEPT ![BuildCacheFile(i)] = builder[i].cache]
    /\ writes' = writes \cup {WriteOf(BuildCacheFile(i), i)}
    /\ builder' = [builder EXCEPT ![i].at = "saved"]
    /\ UNCHANGED <<package_name, cache_dirs, sem, pc>>
    /\ UNCHANGED <<configs, onDisk, badDirs, grouped>>
    /\ UNCHANGED buildVars
    /\ UNCHANGED <<subVars, incVars, aarVars, commonVars, linkVars, findVars, trackVars, priorityVars, cacheVars, pipeVars, scratchVars>>

\* the task returns and its permit is dropped
TaskReturn(i) ==
    /\ builder[i].at = "saved"
    /\ builder' = [builder EXCEPT ![i].at = "done"]
    /\ sem' = sem + 1
    /\ UNCHANGED <<package_name, cache_dirs, cacheFiles, writes, pc>>
    /\ UNCHANGED <<configs, onDisk, badDirs, grouped>>
    /\ UNCHANGED buildVars
    /\ UNCHANGED <<subVars, incVars, aarVars, commonVars, linkVars, findVars, trackVars, priorityVars, cacheVars, pipeVars, scratchVars>>

NextShared ==
    \/ CommonPhase
    \/ SpawnAll
    \/ \E i \in DOMAIN builder : TaskAcquire(i)
    \/ \E i \in DOMAIN builder : BuilderNew(i)
    \/ \E i \in DOMAIN builder : BuilderCompile(i)
    \/ \E i \in DOMAIN builder : BuilderSave(i)
    \/ \E i \in DOMAIN builder : TaskReturn(i)

SpecShared == InitShared /\ [][NextShared]_vars

\* C13: every write of a persisted cache file by a pipeline goes to a file
\* that no pipeline running at the same time uses, and the common cache file is written only by the main task in the common phase,
\* never by a pipeline.
C13_NoSharedCache ==
    \A w \in writes :
          /\ w.by # MainTask => \A j \in w.concurrent : BuildCacheFile(j) # w.file
          /\ w.by = MainTask => w.phase = "common"
          /\ w.file = CommonCacheFile => w.by = MainTask

(* --------------- the resolver on longer configuration lists ------------- *)
\* the main directories of the longer lists are spelled with '/'
MainPaths == {<<d, "/">> : d \in Dirs}

InitChains ==
    /\ \E n \in 0..MaxChainConfigs :
         \E s \in RefPlacements(Paths, n, MaxRefs) :
           \E mains \in [1..n -> MainPaths] : configs = ConfigList(mains, s)
    /\ onDisk \in SUBSET {1}
    /\ badDirs = {}
    /\ pc = "call"
    /\ grouped = NoResult
    /\ BuildIdle
    /\ AuxIdle

SpecChains == InitChains /\ [][NextResolve]_vars

\* the configurations at an end of a derived edge
OnSomeEdge == {i \in DOMAIN configs : \E j \in DOMAIN configs : DependsOn(i, j) \/ DependsOn(j, i)}

\* the configurations returned in a dependent group
InDependentGroups == UNION {Range(grouped.dependent_groups[g]) : g \in DOMAIN grouped.dependent_groups}

\* C25: whenever group_configs_by_dependencies succeeds, the configurations in
\* the dependent groups are exactly those that are the consumer or the
\* provider of a derived edge (a reference to the own main directory is no
\* edge), they all form one single group, also when the edges form several
\* disconnected chains, and the independent list holds exactly the others.
C25_GroupIsEdgeEnds ==
    (pc = "returned" /\ grouped.ok) =>
        /\ InDependentGroups = OnSomeEdge
        /\ Len(grouped.dependent_groups) = IF OnSomeEdge = {} THEN 0 ELSE 1
        /\ Range(grouped.independent) = DOMAIN configs \ OnSomeEdge

\* two disconnected chains (2 depends on 1, 4 depends on 3) were returned as
\* one group of four
C25_Witness ==
    /\ pc = "returned" /\ grouped.ok
    /\ Len(configs) = 4
    /\ DependsOn(2, 1) /\ DependsOn(4, 3)
    /\ \A i \in {1, 2} : \A j \in {3, 4} : ~DependsOn(i, j) /\ ~DependsOn(j, i)
    /\ Len(grouped.dependent_groups) = 1
    /\ Range(grouped.dependent_groups[1]) = {1, 2, 3, 4}

\* ConfigWithIndex { index: idx, config: configs[idx].clone() } (dependency.rs
\* 43 and 112-114)
ConfigWithIndex(cfgs, idx) == [index |-> idx, config |-> cfgs[idx]]

\* the entries returned by the call, independent list first
ReturnedEntries ==
    [k \in DOMAIN (grouped.independent \o Concat(grouped.dependent_groups)) |->
        ConfigWithIndex(configs, (grouped.independent \o Concat(grouped.dependent_groups))[k])]

\* C26: for every list without a cycle in the derived edges, the empty list
\* and a single configuration included, the call succeeds and every index of
\* the input is the index of exactly one returned entry, which carries the
\* configuration at that index.
C26_EveryIndexOnce ==
    (pc = "returned" /\ ~HasCycle) =>
        /\ grouped.ok
        /\ Len(ReturnedEntries) = Len(configs)
        /\ \A i \in DOMAIN configs :
              \E k \in DOMAIN ReturnedEntries :
                  /\ ReturnedEntries[k].index = i
                  /\ ReturnedEntries[k].config = configs[i]
                  /\ \A m \in DOMAIN ReturnedEntries :
                        ReturnedEntries[m].index = i => m = k

\* one configuration depending on another and one independent configuration
\* were returned, three entries in all
C26_Witness ==
    /\ pc = "returned" /\ ~HasCycle /\ grouped.ok
    /\ Len(configs) = 3
    /\ Len(grouped.independent) = 1
    /\ Len(ReturnedEntries) = 3
    /\ \E c, p \in DOMAIN configs : DependsOn(c, p)

\* C27: the value returned for a list of configurations is the same for
\* every iteration order of the map `dependencies`: the same independent
\* list and the same sequence in the dependent group.
C27_SameForEveryOrder ==
    pc = "returned" =>
        \A order \in Orderings(DepKeys(Dependencies(configs, onDisk))) :
            group_configs_by_dependencies(configs, onDisk, order) = grouped

(* ----------------------- phases of an invocation ------------------------ *)
\* the position of a phase in the sequence ResolveCommonDeps (start),
\* CompileCommonDeps (common, save), ResolveGraph (resolve), RunIndependent,
\* RunDependentGroups and Aggregate (dependent), Done (exited)
PhaseRank(p) ==
    CASE p = "start" -> 0
      [] p = "common" -> 1
      [] p = "save" -> 2
      [] p = "resolve" -> 3
      [] p = "independent" -> 4
      [] p = "dependent" -> 5
      [] p = "exited" -> 6
      [] OTHER -> 0

\* the pipelines that were started and are not collected yet
Uncollected == {i \in DOMAIN configs : task[i] \notin {"idle", "joined"}}

\* the size of the list of test_mixed_independent_and_dependent_configs: an
\* independent configuration next to a provider and its consumer
MixedConfigs == 3

\* invocations on one configuration and on three
InitMixed ==
    /\ \E n \in {1, MixedConfigs} :
         \E s \in RefPlacements(BuildPaths, n, MaxRefs) :
           \E mains \in [1..n -> BuildPaths] : configs = ConfigList(mains, s)
    /\ onDisk \in {BuildDirs, BuildDirs \ {2}}
    /\ badDirs \in SUBSET (onDisk \ {1})
    /\ max_parallel = 0
    /\ pc = "start"
    /\ grouped = NoResult
    /\ common_deps = <<>> /\ commonIdx = 0 /\ commonCache = {} /\ commonCompiled = {}
    /\ commonSaved = FALSE /\ compiledBy = {} /\ permits = 0
    /\ task = [i \in DOMAIN configs |-> "idle"]
    /\ outcome = [i \in DOMAIN configs |-> "none"]
    /\ all_results = {} /\ success_count = 0 /\ fail_count = 0 /\ depPos = 0
    /\ exitStatus = "running"
    /\ AuxIdle

SpecMixed == InitMixed /\ [][Next]_vars

\* C28: a multi configuration invocation moves through the phases in their
\* order and never back; the common dependencies are handled only in the
\* common phase, pipelines exist only from RunIndependent on, and while the
\* dependent groups are built (and at Aggregate) no independent pipeline is
\* waiting, running or uncollected.
C28_PhasesInOrder ==
    /\ [][MultiMode => PhaseRank(pc') >= PhaseRank(pc)]_vars
    /\ [][(MultiMode /\ (commonIdx' # commonIdx \/ commonCompiled' # commonCompiled))
            => pc = "common"]_vars
    /\ [](MultiMode =>
            /\ PhaseRank(pc) < 4 => \A i \in DOMAIN configs : task[i] = "idle"
            /\ (pc = "dependent" /\ Grouped) =>
                  \A i \in Range(grouped.independent) : task[i] = "joined"
            /\ Grouped =>
                  \A i \in Range(Group) :
                      task[i] # "idle" =>
                          \A j \in Range(grouped.independent) : task[j] = "joined"
            /\ (pc = "exited" /\ exitStatus \in {"ok", "exit1"}) => Uncollected = {})

\* an independent pipeline was collected and a member of the dependent group
\* is being built after a common dependency was compiled
C28_Witness ==
    /\ MultiMode /\ Grouped /\ pc = "dependent"
    /\ commonCompiled # {} /\ commonSaved
    /\ grouped.independent # <<>>
    /\ \E i \in Range(Group) : task[i] = "compiling"

\* the scheduler and the runtime keep taking steps that are possible
LiveSpec == Spec /\ WF_vars(Next)

\* dependency.rs 192-207: the nodes Kahn's loop never pushed to `sorted`
LeftOut(num_configs, dependencies, order) ==
    LET edges == Edges(dependencies, order)
        in_degree == InDegree(num_configs, edges)
    IN  (1..num_configs) \ Range(KahnLoop(edges, InitialQueue(in_degree), in_degree, <<>>))

\* the configurations an error of group_configs_by_dependencies names: the
\* message of dependency.rs 208 is a literal without arguments, and no caller
\* adds context to it (cli.rs 485-486)
NamedIn(result) == {}

\* C38: when the grouping fails because of a cycle, the error names every
\* configuration that the topological sort left out.
C38_CycleErrorNamesConfigs ==
    (pc = "returned" /\ ~grouped.ok) =>
        \A order \in Orderings(DepKeys(Dependencies(configs, onDisk))) :
            LeftOut(Len(configs), Dependencies(configs, onDisk), order) \subseteq NamedIn(grouped)

\* C37: when a multi configuration invocation has passed Aggregate, the two
\* counters add up to the number of configurations, and each configuration is
\* counted on the side of its outcome: a successful result as a success, a
\* failed result, a pipeline error and a task join error as a failure.
C37_EveryConfigCounted ==
    (pc = "exited" /\ MultiMode /\ exitStatus \in {"ok", "exit1"}) =>
        /\ success_count + fail_count = Len(configs)
        /\ success_count = Cardinality({i \in DOMAIN configs : outcome[i] = "success"})
        /\ \A i \in DOMAIN configs : Cardinality({r \in all_results : r[1] = i}) <= 1

\* three configurations: one task panicked (a join error), one pipeline
\* returned a failed result and one succeeded
C37_Witness ==
    /\ pc = "exited" /\ exitStatus = "exit1" /\ Len(configs) = MixedConfigs
    /\ \E i, j, k \in DOMAIN configs :
          outcome[i] = "panic" /\ outcome[j] = "failed" /\ outcome[k] = "success"
    /\ success_count = 1 /\ fail_count = 2

\* C29: once the independent pipelines are spawned, whatever the resolved
\* concurrency limit, each of them eventually finishes and is collected and
\* the invocation ends.
C29_AllFinish ==
    (Grouped /\ pc = "independent") ~>
        (pc = "exited" /\ Grouped /\ \A i \in Range(grouped.independent) : task[i] = "joined")

(* ---------------- builder.rs: one run of SkinBuilder::build ------------- *)
\* what the pipeline finds at a resource directory: it does not exist, it
\* holds no resource file, its files compile, or the compiler rejects a file
DirKinds == {"missing", "empty", "good", "rejected"}

\* res_dir.display().to_string()
Display(k) == <<"path", k>>

\* what aapt2 link can leave on stderr
Captured == {"", "error: failed linking"}

OutputApk == <<"output_dir", "package.skin">>

\* Err(e) returned by build() or by SkinBuilder::new
ErrResult(cause) == [kind |-> "err", cause |-> cause]

\* builder.rs 342-347
NoResourcesResult(missing) ==
    [kind |-> "ok", success |-> FALSE, apk_path |-> <<>>,
     errors |-> << [text |-> "No resources found to compile", missing |-> missing] >>]

\* aapt2.rs 709-790: the LinkResult of a failed link carries one message that
\* quotes stderr and stdout
LinkFailure(captured) ==
    [success |-> FALSE, apk_path |-> <<>>,
     errors |-> << [text |-> "Failed aapt2 command", stderr |-> captured] >>]

\* aapt2.rs 792-796
LinkSuccess == [success |-> TRUE, apk_path |-> <<OutputApk>>, errors |-> <<>>]

\* a failed link reported without its message
LinkFailureSilent(lr) ==
    [kind |-> "ok", success |-> FALSE, apk_path |-> <<>>, errors |-> <<>>]

\* builder.rs 415-422
LinkFailureResult(lr) ==
    [kind |-> "ok", success |-> FALSE, apk_path |-> <<>>, errors |-> lr.errors]

\* builder.rs 429-434
SuccessResult(lr) ==
    [kind |-> "ok", success |-> TRUE, apk_path |-> lr.apk_path, errors |-> <<>>]

\* the build gives up as soon as a directory is missing
AnyMissing(flat, missing) == missing # <<>>

\* builder.rs 317-320: total_flat_files == 0
NothingToLink(flat, missing) == flat = <<>>

InitPipeline ==
    /\ \E n \in 1..MaxPipelineDirs : dirStates \in [1..n -> DirKinds]
    /\ incremental \in BOOLEAN
    /\ stage = "new" /\ dirIdx = 0
    /\ cacheEntries = {} /\ missing_dirs = <<>> /\ flat_dirs = <<>>
    /\ link_result = <<>> /\ buildResult = [kind |-> "none"]
    /\ faults = {} /\ recompiled = {}
    /\ PriorityIdle /\ CacheIdle /\ ShareIdle /\ ScratchIdle /\ TrackIdle /\ FindIdle /\ LinkIdle /\ CommonIdle /\ AarIdle /\ IncIdle /\ SubIdle
    /\ configs = <<>> /\ onDisk = {} /\ badDirs = {}
    /\ pc = "call"
    /\ grouped = NoResult
    /\ BuildIdle

PipeFrame ==
    /\ UNCHANGED <<subVars, incVars, aarVars, commonVars, linkVars, findVars, trackVars, runVars, priorityVars, cacheVars, shareVars, scratchVars>>
    /\ UNCHANGED <<dirStates, incremental>>

\* build() returns
Return(result) == stage' = "done" /\ buildResult' = result

\* SkinBuilder::new (builder.rs 106-128) and the start of build (156-175).
\* BuildCache::new turns a persisted file it cannot read or parse into an
\* empty cache; Aapt2::new, cache.init and the create_dir_all calls can fail.
PipeNew ==
    /\ stage = "new"
    /\ \/ /\ Return(ErrResult("setup"))
          /\ UNCHANGED <<cacheEntries, faults>>
       \/ /\ stage' = "dirs"
          /\ IF incremental
             THEN \E loaded \in SUBSET {k \in DOMAIN dirStates : dirStates[k] = "good"} :
                    \/ cacheEntries' = loaded /\ UNCHANGED faults
                    \/ cacheEntries' = {} /\ faults' = faults \cup {<<"load", 0>>}
             ELSE UNCHANGED <<cacheEntries, faults>>
          /\ UNCHANGED buildResult
    /\ UNCHANGED <<dirIdx, missing_dirs, flat_dirs, link_result, recompiled>>
    /\ PipeFrame

\* one iteration of the loop of builder.rs 232-256, with compile_all_resources
\* (451-542) for a directory that holds resource files
PipeDir ==
    /\ stage = "dirs" /\ dirIdx < Len(dirStates)
    /\ LET k == dirIdx + 1
           pushed == /\ flat_dirs' = Append(flat_dirs, k)
                     /\ dirIdx' = k
                     /\ UNCHANGED <<stage, buildResult, missing_dirs>>
           failed(cause) == /\ Return(ErrResult(cause))
                            /\ UNCHANGED <<flat_dirs, dirIdx, missing_dirs>>
       IN  CASE dirStates[k] = "missing" ->
                  /\ missing_dirs' = Append(missing_dirs, Display(k))
                  /\ dirIdx' = k
                  /\ UNCHANGED <<stage, buildResult, flat_dirs, cacheEntries, faults, recompiled>>
             [] dirStates[k] = "empty" ->
                  /\ dirIdx' = k
                  /\ UNCHANGED <<stage, buildResult, flat_dirs, missing_dirs, cacheEntries,
                                 faults, recompiled>>
             [] OTHER ->
                  IF ~incremental
                  THEN /\ recompiled' = recompiled \cup {k}
                       /\ UNCHANGED <<cacheEntries, faults>>
                       /\ IF dirStates[k] = "rejected" THEN failed("compile") ELSE pushed
                  ELSE \E needsFault \in BOOLEAN :
                         \* cache.needs_recompile(file).unwrap_or(true)
                         LET needs == needsFault \/ k \notin cacheEntries
                             noted == IF needsFault THEN faults \cup {<<"needs", k>>} ELSE faults
                         IN  /\ recompiled' = IF needs THEN recompiled \cup {k} ELSE recompiled
                             /\ IF needs /\ dirStates[k] = "rejected"
                                THEN /\ failed("compile")
                                     /\ faults' = noted
                                     /\ UNCHANGED cacheEntries
                                ELSE \* cache.update_entry(file, flat_file)?
                                     \/ /\ cacheEntries' = cacheEntries \cup {k}
                                        /\ faults' = noted
                                        /\ pushed
                                     \/ /\ faults' = noted \cup {<<"update", k>>}
                                        /\ UNCHANGED cacheEntries
                                        /\ failed("cache_update")
    /\ UNCHANGED link_result
    /\ PipeFrame

\* builder.rs 317-348: nothing was compiled
PipeCheck ==
    /\ stage = "dirs" /\ dirIdx = Len(dirStates)
    /\ IF NothingToLink(flat_dirs, missing_dirs)
       THEN Return(NoResourcesResult(missing_dirs))
       ELSE stage' = "save" /\ UNCHANGED buildResult
    /\ UNCHANGED <<dirIdx, cacheEntries, missing_dirs, flat_dirs, link_result, faults, recompiled>>
    /\ PipeFrame

\* builder.rs 357-360: cache.save()?
PipeSave ==
    /\ stage = "save"
    /\ \/ stage' = "link" /\ UNCHANGED <<buildResult, faults>>
       \/ /\ incremental
          /\ faults' = faults \cup {<<"save", 0>>}
          /\ Return(ErrResult("cache_save"))
    /\ UNCHANGED <<dirIdx, cacheEntries, missing_dirs, flat_dirs, link_result, recompiled>>
    /\ PipeFrame

\* builder.rs 362-435: the manifest, the link call and the packaging
PipeLink ==
    /\ stage = "link"
    /\ \/ \E cause \in {"manifest", "link_spawn"} :
            Return(ErrResult(cause)) /\ UNCHANGED link_result
       \/ \E captured \in Captured :
            /\ link_result' = <<LinkFailure(captured)>>
            /\ Return(LinkFailureResult(LinkFailure(captured)))
       \/ /\ link_result' = <<LinkSuccess>>
          /\ \/ Return(ErrResult("add_resources"))
             \/ Return(SuccessResult(LinkSuccess))
    /\ UNCHANGED <<dirIdx, cacheEntries, missing_dirs, flat_dirs, faults, recompiled>>
    /\ PipeFrame

NextPipeline ==
    \/ PipeNew
    \/ PipeDir
    \/ PipeCheck
    \/ PipeSave
    \/ PipeLink

SpecPipeline == InitPipeline /\ [][NextPipeline]_vars

\* build() has returned a BuildResult
Returned == stage = "done" /\ buildResult.kind = "ok"

\* C21: a failure of a cache operation never makes build() return an error:
\* a cache that cannot be loaded is empty, a failed needs_recompile has the
\* file compiled again, and failures of update_entry and save are not
\* propagated.
C21_CacheFaultsDegrade ==
    /\ buildResult.kind = "err" => buildResult.cause \notin {"cache_update", "cache_save"}
    /\ \A k \in DOMAIN dirStates : <<"needs", k>> \in faults => k \in recompiled
    /\ (<<"load", 0>> \in faults /\ stage = "dirs" /\ dirIdx = 0) => cacheEntries = {}

\* C22: when build() gets past its setup and every resource directory is
\* missing, it returns a BuildResult with success = false whose error names
\* every missing path; when a directory is missing and another one yields
\* flat files, the missing one contributes none and the result is the one of
\* the link, not the missing-directory failure.
C22_MissingDirs ==
    (stage = "done" /\ (buildResult.kind = "err" => buildResult.cause # "setup")) =>
        /\ (\A k \in DOMAIN dirStates : dirStates[k] = "missing") =>
              /\ Returned /\ ~buildResult.success
              /\ Len(buildResult.errors) = 1
              /\ \A k \in DOMAIN dirStates :
                    Display(k) \in Range(buildResult.errors[1].missing)
        /\ \A k \in DOMAIN dirStates : dirStates[k] = "missing" => k \notin Range(flat_dirs)
        /\ (flat_dirs # <<>> /\ Returned) =>
              /\ link_result # <<>>
              /\ buildResult.success = link_result[1].success
              /\ buildResult.errors = link_result[1].errors

\* the main directory is missing, an additional directory was compiled, and
\* the build succeeded
C22_Witness ==
    /\ Returned /\ buildResult.success
    /\ Len(dirStates) = 2
    /\ dirStates[1] = "missing" /\ dirStates[2] = "good"
    /\ missing_dirs = <<Display(1)>> /\ flat_dirs = <<2>>

\* C23: a BuildResult after a failed link has success = false, no output
\* path and the message of the linker with its captured output; after a
\* successful link it has success = true and the output path; every
\* BuildResult with success = true has an output path and no errors, every
\* one with success = false has errors and no output path.
C23_ResultShape ==
    Returned =>
        /\ buildResult.success => (buildResult.apk_path # <<>> /\ buildResult.errors = <<>>)
        /\ ~buildResult.success => (buildResult.errors # <<>> /\ buildResult.apk_path = <<>>)
        /\ link_result # <<>> =>
              IF link_result[1].success
              THEN buildResult.success /\ buildResult.apk_path = <<OutputApk>>
              ELSE /\ ~buildResult.success
                   /\ \E captured \in Captured :
                         buildResult.errors =
                           << [text |-> "Failed aapt2 command", stderr |-> captured] >>

\* the linker failed with a message on stderr and build() returned it
C23_Witness ==
    /\ Returned /\ link_result # <<>> /\ ~link_result[1].success
    /\ buildResult.errors[1].stderr = "error: failed linking"

(* ------ cli.rs / builder.rs: the files concurrent pipelines share ------- *)
PackageNames == {"com.a", "com.b"}

OutputDirs == {<<"out1">>, <<"out2">>}

\* compiledDir of a configuration: absent or given
CompiledDirChoices == {<<>>, << <<"scratch">> >>}

\* PathBuf::join with a relative component
PathJoin(path, name) == Append(path, name)

\* cli.rs 325-334: a configuration without compiledDir gets
\* output_dir.join(package_name)
AssignCompiledDirs(cfgs) ==
    [i \in DOMAIN cfgs |->
        IF cfgs[i].compiled_dir = <<>>
        THEN [cfgs[i] EXCEPT !.compiled_dir =
                 << PathJoin(cfgs[i].output_dir, cfgs[i].package_name) >>]
        ELSE cfgs[i]]

\* builder.rs 181-185, 235: the main resource directory is compiled into
\* compiled_dir.join("main")
ModuleCompiledDir(t) == PathJoin(build_configs[t].compiled_dir[1], "main")

\* builder.rs 79: output_dir.join(".temp_AndroidManifest.xml"); the file is
\* identified by the directory that holds it
ManifestPath(t) == build_configs[t].output_dir

ScratchInit ==
    /\ \E n \in 2..MaxBuildConfigs :
         \E inc \in BOOLEAN :
           /\ build_configs \in
                [1..n -> [package_name : PackageNames, output_dir : OutputDirs,
                          compiled_dir : CompiledDirChoices, incremental : {inc}]]
           /\ position = [t \in 1..n |-> "spawned"]
           /\ linked = [t \in 1..n |-> <<>>]
    /\ given = {i \in DOMAIN build_configs : build_configs[i].compiled_dir # <<>>}
    /\ free \in 1..MaxParallel
    /\ scratchPc = "assign"
    /\ scratch = {}
    /\ manifests = [d \in OutputDirs |-> <<>>]
    /\ PriorityIdle /\ CacheIdle /\ ShareIdle /\ PipeIdle /\ TrackIdle /\ FindIdle /\ LinkIdle /\ CommonIdle /\ AarIdle /\ IncIdle /\ SubIdle
    /\ configs = <<>> /\ onDisk = {} /\ badDirs = {}
    /\ pc = "call"
    /\ grouped = NoResult
    /\ BuildIdle

ScratchFrame ==
    /\ UNCHANGED <<subVars, incVars, aarVars, commonVars, linkVars, findVars, trackVars, runVars, priorityVars, cacheVars, shareVars, pipeVars>>
    /\ UNCHANGED given

\* cli.rs 323-339
ScratchAssign ==
    /\ scratchPc = "assign"
    /\ build_configs' = AssignCompiledDirs(build_configs)
    /\ scratchPc' = "run"
    /\ UNCHANGED <<position, free, scratch, manifests, linked>>
    /\ ScratchFrame

\* cli.rs 519: sem.acquire().await
PipelineAcquire(t) ==
    /\ scratchPc = "run" /\ position[t] = "spawned"
    /\ free > 0
    /\ free' = free - 1
    /\ position' = [position EXCEPT ![t] = "running"]
    /\ UNCHANGED <<build_configs, scratchPc, scratch, manifests, linked>>
    /\ ScratchFrame

\* builder.rs 156-164, 235-236 and 457-462: the scratch directory is created,
\* and removed and created again when the build is not incremental
PipelineClear(t) ==
    /\ position[t] = "running"
    /\ scratch' = IF build_configs[t].incremental
                  THEN scratch
                  ELSE {f \in scratch : f[1] # ModuleCompiledDir(t)}
    /\ position' = [position EXCEPT ![t] = "cleared"]
    /\ UNCHANGED <<build_configs, scratchPc, free, manifests, linked>>
    /\ ScratchFrame

\* builder.rs 464-470 and 500-527: the flat files are written, replacing a
\* file of the same name
PipelineCompile(t) ==
    /\ position[t] = "cleared"
    /\ scratch' = {f \in scratch : f[1] # ModuleCompiledDir(t)}
                    \cup {<<ModuleCompiledDir(t), t>>}
    /\ position' = [position EXCEPT ![t] = "compiled"]
    /\ UNCHANGED <<build_configs, scratchPc, free, manifests, linked>>
    /\ ScratchFrame

\* builder.rs 362-367 with create_minimal_manifest (78-95)
PipelineManifest(t) ==
    /\ position[t] = "compiled"
    /\ manifests' = [manifests EXCEPT ![ManifestPath(t)] = <<build_configs[t].package_name>>]
    /\ position' = [position EXCEPT ![t] = "manifested"]
    /\ UNCHANGED <<build_configs, scratchPc, free, scratch, linked>>
    /\ ScratchFrame

\* builder.rs 386-399: aapt2 link reads the manifest and the flat files
PipelineLink(t) ==
    /\ position[t] = "manifested"
    /\ linked' = [linked EXCEPT ![t] =
                    << [manifest |-> manifests[ManifestPath(t)],
                        flat_files |-> {f[2] : f \in {g \in scratch : g[1] = ModuleCompiledDir(t)}}] >>]
    /\ position' = [position EXCEPT ![t] = "linked"]
    /\ UNCHANGED <<build_configs, scratchPc, free, scratch, manifests>>
    /\ ScratchFrame

\* builder.rs 402: fs::remove_file(&processed_manifest).ok(); the permit is
\* dropped when the task ends (cli.rs 519-529)
PipelineFinish(t) ==
    /\ position[t] = "linked"
    /\ manifests' = [manifests EXCEPT ![ManifestPath(t)] = <<>>]
    /\ free' = free + 1
    /\ position' = [position EXCEPT ![t] = "done"]
    /\ UNCHANGED <<build_configs, scratchPc, scratch, linked>>
    /\ ScratchFrame

NextScratch ==
    \/ ScratchAssign
    \/ \E t \in DOMAIN position : PipelineAcquire(t)
    \/ \E t \in DOMAIN position : PipelineClear(t)
    \/ \E t \in DOMAIN position : PipelineCompile(t)
    \/ \E t \in DOMAIN position : PipelineManifest(t)
    \/ \E t \in DOMAIN position : PipelineLink(t)
    \/ \E t \in DOMAIN position : PipelineFinish(t)

SpecScratch == ScratchInit /\ [][NextScratch]_vars

\* the pipeline of t is between its permit and the end of its compilation
InScratch(t) == position[t] \in {"running", "cleared"}

\* C24: after the assignment of cli.rs every configuration without an
\* explicit compiledDir has a compiled directory that no other configuration
\* has, and no two pipelines are at the same time clearing or writing the
\* same scratch directory.
C24_OwnScratchDir ==
    scratchPc = "run" =>
        \A i \in DOMAIN build_configs \ given :
            \A j \in DOMAIN build_configs \ {i} :
                /\ build_configs[i].compiled_dir # build_configs[j].compiled_dir
                /\ ~(InScratch(i) /\ InScratch(j)
                        /\ ModuleCompiledDir(i) = ModuleCompiledDir(j))

\* C30: from the creation of its temporary manifest to the end of its link a
\* pipeline finds at the manifest path the manifest that declares its own
\* package, and that is the manifest its link read.
C30_ManifestIsOwn ==
    \A t \in DOMAIN position :
        /\ position[t] = "manifested" =>
              manifests[ManifestPath(t)] = <<build_configs[t].package_name>>
        /\ linked[t] # <<>> =>
              linked[t][1].manifest = <<build_configs[t].package_name>>

(* ------------- resource_priority.rs: ResourcePriorityTracker ------------ *)
NormalizedPaths == {"res/drawable/icon.png", "res/values/colors.xml"}

TrackerPriorities == {Library(0), Library(1), Main, Additional(0)}

\* HashMap::insert
MapInsert(map, key, v) ==
    [k \in DOMAIN map \cup {key} |-> IF k = key THEN v ELSE map[k]]

\* a resource of equal priority replaces the existing one as well
OverridesOrTies(info, existing) == value(info.priority) >= value(existing.priority)

\* resource_priority.rs 82: info.priority.value() > existing.priority.value()
Overrides(info, existing) == value(info.priority) > value(existing.priority)

\* resource_priority.rs 98
LosesTo(info, existing) == value(info.priority) < value(existing.priority)

\* ResourcePriorityTracker::new
InitTracker ==
    /\ resources = <<>> /\ conflicts = <<>> /\ added = <<>> /\ returned = <<>>
    /\ PriorityIdle /\ CacheIdle /\ ShareIdle /\ PipeIdle /\ ScratchIdle /\ FindIdle /\ LinkIdle /\ CommonIdle /\ AarIdle /\ IncIdle /\ SubIdle
    /\ configs = <<>> /\ onDisk = {} /\ badDirs = {}
    /\ pc = "call"
    /\ grouped = NoResult
    /\ BuildIdle

\* add_resource (resource_priority.rs 76-124); source_path tells the added
\* resources apart
add_resource ==
    /\ Len(added) < MaxAdds
    /\ \E path \in NormalizedPaths : \E priority \in TrackerPriorities :
         LET info == [normalized_path |-> path, priority |-> priority,
                      source_path |-> Len(added) + 1]
         IN  /\ added' = Append(added, info)
             /\ IF path \in DOMAIN resources
                THEN LET existing == resources[path]
                     IN  CASE Overrides(info, existing) ->
                                /\ conflicts' = Append(conflicts, <<path, existing, info>>)
                                /\ resources' = MapInsert(resources, path, info)
                                /\ returned' = Append(returned, TRUE)
                           [] LosesTo(info, existing) ->
                                /\ conflicts' = Append(conflicts, <<path, info, existing>>)
                                /\ returned' = Append(returned, FALSE)
                                /\ UNCHANGED resources
                           [] OTHER ->
                                /\ returned' = Append(returned, FALSE)
                                /\ UNCHANGED <<resources, conflicts>>
                ELSE /\ resources' = MapInsert(resources, path, info)
                     /\ returned' = Append(returned, FALSE)
                     /\ UNCHANGED conflicts
    /\ UNCHANGED <<subVars, incVars, aarVars, commonVars, linkVars, findVars, runVars, priorityVars, cacheVars, shareVars, pipeVars, scratchVars>>

NextTracker == add_resource

SpecTracker == InitTracker /\ [][NextTracker]_vars

\* the calls before call k that gave the same normalized path
EarlierSamePath(k) ==
    {j \in 1..(k - 1) : added[j].normalized_path = added[k].normalized_path}

\* the calls that gave this normalized path
AddedWith(path) == {k \in DOMAIN added : added[k].normalized_path = path}

\* C39: the tracker holds one resource for each normalized path that was
\* added and for no other; it is the first one added among those of the
\* highest priority value for the path; a call returned true exactly when an
\* earlier call gave the same path and all of them had a lower priority
\* value; the number of conflicts is the number of calls that met a held
\* resource of another priority value.
C39_HighestPriorityHeld ==
    /\ DOMAIN resources = {added[k].normalized_path : k \in DOMAIN added}
    /\ \A path \in DOMAIN resources :
          \E k \in AddedWith(path) :
             /\ resources[path] = added[k]
             /\ \A j \in AddedWith(path) :
                   /\ value(added[j].priority) <= value(added[k].priority)
                   /\ value(added[j].priority) = value(added[k].priority) => k <= j
    /\ \A k \in DOMAIN added :
          returned[k] <=>
             /\ EarlierSamePath(k) # {}
             /\ \A j \in EarlierSamePath(k) :
                   value(added[j].priority) < value(added[k].priority)
    /\ Len(conflicts) =
          Cardinality({k \in DOMAIN added :
             /\ EarlierSamePath(k) # {}
             /\ \A j \in EarlierSamePath(k) :
                   (\A i \in EarlierSamePath(k) :
                       value(added[i].priority) <= value(added[j].priority))
                     => value(added[j].priority) # value(added[k].priority)})

\* a library resource was replaced by the main one, a second main resource
\* of the same path was then ignored: one resource, one conflict
C39_Witness ==
    /\ Len(added) = 3
    /\ added[1].priority = Library(0) /\ added[2].priority = Main /\ added[3].priority = Main
    /\ added[1].normalized_path = added[2].normalized_path
    /\ added[2].normalized_path = added[3].normalized_path
    /\ returned = <<FALSE, TRUE, FALSE>>
    /\ Len(conflicts) = 1
    /\ resources[added[1].normalized_path] = added[2]

(* ---------------- builder.rs: SkinBuilder::find_resource_files ---------- *)
\* names are sequences of pieces, so that a prefix of a name is a prefix of
\* the sequence
DirNames == {<<"drawable">>, <<"layout">>, <<"layout", "-land">>, <<"my", "layout">>}

NestedDirNames == {<<"drawable">>, <<"layout">>}

FileNames ==
    {<<"icon.png">>, <<".", "gitkeep">>, <<"Thumbs.db">>, <<"Thumbs.db", ".bak">>,
     <<"styles.xml">>, <<"attrs.xml">>, <<"strings.xml">>, <<"colors.xml">>}

\* the paths a file can have beneath the resource directory: directly under
\* it, in a subdirectory, or in a directory of a subdirectory
FilePaths ==
    {<<f>> : f \in FileNames}
      \cup {<<d, f>> : d \in DirNames, f \in FileNames}
      \cup {<<d, e, f>> : d \in DirNames, e \in NestedDirNames, f \in FileNames}

\* the subsets of S with at most n elements
RECURSIVE SmallSubsetsFrom(_, _)
SmallSubsetsFrom(S, n) ==
    IF n = 0 THEN {{}}
    ELSE LET smaller == SmallSubsetsFrom(S, n - 1)
         IN  smaller \cup {T \cup {x} : T \in smaller, x \in S}

\* the name is the prefix itself
NameEquals(name, prefix) == name = prefix

\* str::starts_with
starts_with(name, prefix) ==
    Len(name) >= Len(prefix) /\ SubSeq(name, 1, Len(prefix)) = prefix

\* Path::file_name
file_name(path) == path[Len(path)]

\* Path::parent, relative to the resource directory (<<>> is the directory)
parent(path) == SubSeq(path, 1, Len(path) - 1)

\* one iteration of the loop of builder.rs 646-695: TRUE when the file is pushed
Pushed(path) ==
    /\ parent(path) # <<>>
    /\ ~starts_with(file_name(parent(path)), <<"layout">>)
    /\ ~(starts_with(file_name(path), <<".">>) \/ file_name(path) = <<"Thumbs.db">>)
    /\ file_name(path) \notin {<<"styles.xml">>, <<"attrs.xml">>, <<"strings.xml">>}

find_resource_files(files) == {path \in files : Pushed(path)}

InitFind ==
    /\ tree \in SmallSubsetsFrom(FilePaths, MaxFiles)
    /\ found = <<>>
    /\ PriorityIdle /\ CacheIdle /\ ShareIdle /\ PipeIdle /\ ScratchIdle /\ TrackIdle /\ LinkIdle /\ CommonIdle /\ AarIdle /\ IncIdle /\ SubIdle
    /\ configs = <<>> /\ onDisk = {} /\ badDirs = {}
    /\ pc = "call"
    /\ grouped = NoResult
    /\ BuildIdle

CallFind ==
    /\ found = <<>>
    /\ found' = <<find_resource_files(tree)>>
    /\ UNCHANGED tree
    /\ UNCHANGED <<subVars, incVars, aarVars, commonVars, linkVars, runVars, priorityVars, cacheVars, shareVars, pipeVars, scratchVars, trackVars>>

NextFind == CallFind

SpecFind == InitFind /\ [][NextFind]_vars

\* the file is hidden, a system file or one of the filtered values files
ExcludedName(name) ==
    \/ Head(name) = "."
    \/ name = <<"Thumbs.db">>
    \/ name \in {<<"styles.xml">>, <<"attrs.xml">>, <<"strings.xml">>}

\* the directories the file is inside of, beneath the resource directory
DirsAbove(path) == {path[k] : k \in 1..(Len(path) - 1)}

\* C40 as stated: the files returned are exactly those that are not directly
\* under the resource directory, not inside a directory whose name starts
\* with "layout", and whose name is not excluded.
C40_ExactlyTheResourceFiles ==
    found # <<>> =>
        found[1] = {path \in tree :
                      /\ Len(path) > 1
                      /\ \A d \in DirsAbove(path) : Head(d) # "layout"
                      /\ ~ExcludedName(file_name(path))}

\* C40 amended: the files returned are exactly those that are not directly
\* under the resource directory, whose parent directory has a name that does
\* not start with "layout", and whose name is not excluded.
C40_ParentNotLayout ==
    found # <<>> =>
        found[1] = {path \in tree :
                      /\ Len(path) > 1
                      /\ Head(path[Len(path) - 1]) # "layout"
                      /\ ~ExcludedName(file_name(path))}

\* a file of layout-land was left out, and a file of a directory inside
\* layout was returned
C40_Witness ==
    /\ found # <<>>
    /\ <<<<"layout", "-land">>, <<"icon.png">>>> \in tree \ found[1]
    /\ <<<<"layout">>, <<"drawable">>, <<"icon.png">>>> \in found[1]

(* --------- aapt2.rs: link_with_command_line and its two modes ----------- *)
\* aapt2.rs 392
USE_ZIP_THRESHOLD == 100

\* numbers of flat files a compiled directory contributes
FileCounts == {0, 1, USE_ZIP_THRESHOLD \div 2, USE_ZIP_THRESHOLD, USE_ZIP_THRESHOLD + 1}

\* the flat files of a compiled directory: <<directory, file name>>, the
\* names being first + 1 .. first + n
FlatFilesIn(dir, n, first) == [k \in 1..n |-> <<dir, first + k>>]

\* file names of the second library: the same as those of the first, or others
NameOffsets == {0, 2 * USE_ZIP_THRESHOLD}

OverlayDirs == <<"main", "additional_0", "additional_1">>

\* Path::file_name of a flat file
FlatFileName(flat_file) == flat_file[2]

\* aapt2.rs 459-467 and 481-489: one entry per flat file, named by the file
\* name alone
ZipEntries(flat_files) ==
    [k \in DOMAIN flat_files |->
        [name |-> FlatFileName(flat_files[k]), content |-> flat_files[k]]]

\* two entries of the archive have the same name
HasDuplicateNames(entries) ==
    \E j, k \in DOMAIN entries : j # k /\ entries[j].name = entries[k].name

\* ZipWriter::start_file on a name the archive already has: it is refused
\* (newer versions of the zip crate) or a second entry of that name is written
DuplicatePolicies == {"refuse", "write"}

\* the archive written for a set, or the error of start_file
WriteZip(flat_files, policy) ==
    IF HasDuplicateNames(ZipEntries(flat_files)) /\ policy = "refuse"
    THEN [ok |-> FALSE, entries |-> <<>>]
    ELSE [ok |-> TRUE, entries |-> ZipEntries(flat_files)]

\* aapt2.rs 386-388
TotalFlatFiles(base, overlays) ==
    Len(base) + Len(Concat(overlays))

\* aapt2.rs 394
use_zip(total) == total > USE_ZIP_THRESHOLD

\* aapt2.rs 472-490: the non-empty overlay sets, in their order
NonEmptySets(overlays) == SelectSeq(overlays, LAMBDA set : set # <<>>)

\* link_with_zip (aapt2.rs 429-575)
link_with_zip(base, overlays, policy) ==
    LET base_zip == WriteZip(base, policy)
        sets == NonEmptySets(overlays)
        overlay_zips == [k \in DOMAIN sets |-> WriteZip(sets[k], policy)]
    IN  IF ~base_zip.ok \/ \E k \in DOMAIN overlay_zips : ~overlay_zips[k].ok
        THEN [mode |-> "zip", ok |-> FALSE, base |-> <<>>, overlays |-> <<>>]
        ELSE [mode |-> "zip", ok |-> TRUE, base |-> base_zip.entries,
              overlays |-> [k \in DOMAIN overlay_zips |-> overlay_zips[k].entries]]

\* link_with_direct_args (aapt2.rs 578-689): the base files as arguments, then
\* -R with every file of every overlay set
link_with_direct_args(base, overlays) ==
    [mode |-> "direct", ok |-> TRUE, base |-> base, overlays |-> Concat(overlays)]

InitLink ==
    /\ \E na \in FileCounts : \E nb \in FileCounts : \E first \in NameOffsets :
         base_flat_files = FlatFilesIn("aar_0", na, 0) \o FlatFilesIn("aar_1", nb, first)
    /\ \E counts \in [DOMAIN OverlayDirs -> FileCounts \ {USE_ZIP_THRESHOLD}] :
         overlay_flat_files =
            [k \in DOMAIN OverlayDirs |-> FlatFilesIn(OverlayDirs[k], counts[k], 0)]
    /\ flat_files_by_priority = <<>>
    /\ command = <<>>
    /\ CacheIdle /\ ShareIdle /\ PipeIdle /\ ScratchIdle /\ TrackIdle /\ FindIdle /\ CommonIdle /\ AarIdle /\ IncIdle /\ SubIdle
    /\ configs = <<>> /\ onDisk = {} /\ badDirs = {}
    /\ pc = "call"
    /\ grouped = NoResult
    /\ BuildIdle

\* link_with_command_line (aapt2.rs 369-426)
LinkWithCommandLine ==
    /\ command = <<>>
    /\ IF use_zip(TotalFlatFiles(base_flat_files, overlay_flat_files))
       THEN \E policy \in DuplicatePolicies :
              command' = <<link_with_zip(base_flat_files, overlay_flat_files, policy)>>
       ELSE command' = <<link_with_direct_args(base_flat_files, overlay_flat_files)>>
    /\ UNCHANGED <<subVars, incVars, aarVars, commonVars, runVars, priorityVars, cacheVars, shareVars, pipeVars, scratchVars,
                   trackVars, findVars>>

NextLink == LinkWithCommandLine

SpecLink == InitLink /\ [][NextLink]_vars

\* the artifacts an archive holds, by entry name
ContentsByName(entries) ==
    {<<entries[k].name, entries[k].content>> : k \in DOMAIN entries}

\* every artifact of the set is in the archive under a name of its own
HoldsEach(entries, flat_files) ==
    /\ {entries[k].content : k \in DOMAIN entries} = Range(flat_files)
    /\ \A j, k \in DOMAIN entries : j # k => entries[j].name # entries[k].name

\* C36: above the threshold the link step writes one archive for the base set
\* and one for each non-empty overlay set, in the order of the overlay sets;
\* every archive holds each artifact of its set as an entry of its own, so the
\* linker is given the base artifacts and the ordered overlay contents that
\* the direct arguments would give.
C36_ZipSameAsDirect ==
    (command # <<>> /\ command[1].mode = "zip") =>
        LET direct == link_with_direct_args(base_flat_files, overlay_flat_files)
            sets == NonEmptySets(overlay_flat_files)
        IN  /\ command[1].ok
            /\ HoldsEach(command[1].base, direct.base)
            /\ Len(command[1].overlays) = Len(sets)
            /\ \A k \in DOMAIN sets : HoldsEach(command[1].overlays[k], sets[k])
            /\ Concat([k \in DOMAIN sets |->
                         [j \in DOMAIN sets[k] |-> command[1].overlays[k][j].content]])
                 = direct.overlays

(* ------ cli.rs 432-482: compiling the common dependencies --------------- *)
CommonDepDirs == {"common/a", "common/b"}

\* names of the flat files aapt2 writes: <type>_<file>.flat
FlatNames == {"values_colors.arsc.flat", "drawable_icon.png.flat"}

\* where a file of the shared compiled directory came from when it was not
\* written in this phase
Earlier == "earlier invocation"

\* the file listing after aapt2 compile --dir wrote `names` for `dep`
AfterCompile(listing, dep, names) ==
    [n \in DOMAIN listing \cup names |-> IF n \in names THEN dep ELSE listing[n]]

\* Aapt2::collect_flat_files (aapt2.rs 799-817): every .flat file of the
\* output directory
collect_flat_files(listing) == DOMAIN listing

InitCommon ==
    /\ \E order \in Orderings(CommonDepDirs) : depOrder = order
    /\ depProduces \in [CommonDepDirs -> (SUBSET FlatNames) \ {{}}]
    /\ depNeeds \in SUBSET CommonDepDirs
    /\ \E left \in SUBSET FlatNames : compiledListing = [n \in left |-> Earlier]
    /\ depEntries = [d \in CommonDepDirs \ depNeeds |-> depProduces[d]]
    /\ depIdx = 0 /\ depCompiled = {}
    /\ PriorityIdle /\ CacheIdle /\ ShareIdle /\ PipeIdle /\ ScratchIdle /\ TrackIdle /\ AarIdle /\ IncIdle /\ SubIdle
    /\ FindIdle /\ LinkIdle /\ AarIdle /\ IncIdle /\ SubIdle
    /\ configs = <<>> /\ onDisk = {} /\ badDirs = {}
    /\ pc = "call"
    /\ grouped = NoResult
    /\ BuildIdle

CommonFrame ==
    /\ UNCHANGED <<subVars, incVars, aarVars, runVars, priorityVars, cacheVars, shareVars, pipeVars, scratchVars,
                   trackVars, findVars, linkVars>>
    /\ UNCHANGED <<depOrder, depProduces, depNeeds>>

\* one iteration of the loop of cli.rs 432-477
CompileCommon ==
    /\ depIdx < Len(depOrder)
    /\ LET dep == depOrder[depIdx + 1]
       IN  IF dep \in depNeeds
           THEN \/ \* aapt2 compile --dir succeeded (aapt2.rs 91-160)
                   LET listing == AfterCompile(compiledListing, dep, depProduces[dep])
                   IN  /\ compiledListing' = listing
                       /\ depEntries' = MapInsert(depEntries, dep, collect_flat_files(listing))
                       /\ depCompiled' = depCompiled \cup {dep}
                \/ \* the compiler rejected the directory
                   UNCHANGED <<compiledListing, depEntries, depCompiled>>
           ELSE UNCHANGED <<compiledListing, depEntries, depCompiled>>
    /\ depIdx' = depIdx + 1
    /\ CommonFrame

NextCommon == CompileCommon

SpecCommon == InitCommon /\ [][NextCommon]_vars

\* C35: when the loop over the common dependencies has ended, the cache entry
\* of every directory compiled in it lists exactly the flat files written for
\* that directory by its compile.
C35_EntryListsOwnArtifacts ==
    depIdx = Len(depOrder) =>
        \A dep \in depCompiled : depEntries[dep] = depProduces[dep]

(* ------ builder.rs 166-175, 407-413 and aar.rs: extracted AAR files ----- *)
\* AAR files as <<directory, file stem>>
AarFiles == {<<"libs", "core">>, <<"vendor", "core">>}

AarLists == {<<>>} \cup {<<a>> : a \in AarFiles}

\* Path::file_stem
file_stem(aar_path) == aar_path[2]

\* aar.rs 64-70 with builder.rs 168:
\* output_dir.join(".temp").join(format!("aar_{}_{}", i, aar_name))
ExtractDir(t, i) ==
    PathJoin(PathJoin(aarConfigs[t].output_dir, ".temp"),
             <<"aar", i, file_stem(aarConfigs[t].aar_files[i])>>)

ExtractDirs(t) == {ExtractDir(t, i) : i \in DOMAIN aarConfigs[t].aar_files}

InitAar ==
    /\ \E n \in 2..MaxBuildConfigs :
         /\ aarConfigs \in [1..n -> [output_dir : OutputDirs, aar_files : AarLists]]
         /\ aarPos = [t \in 1..n |-> "spawned"]
    /\ aarFree \in 1..MaxParallel
    /\ extractedDirs = {}
    /\ PriorityIdle /\ CacheIdle /\ ShareIdle /\ PipeIdle /\ ScratchIdle /\ TrackIdle /\ IncIdle /\ SubIdle
    /\ FindIdle /\ LinkIdle /\ CommonIdle /\ IncIdle /\ SubIdle
    /\ configs = <<>> /\ onDisk = {} /\ badDirs = {}
    /\ pc = "call"
    /\ grouped = NoResult
    /\ BuildIdle

AarFrame ==
    /\ UNCHANGED <<subVars, incVars, runVars, priorityVars, cacheVars, shareVars, pipeVars, scratchVars,
                   trackVars, findVars, linkVars, commonVars>>
    /\ UNCHANGED aarConfigs

\* cli.rs 519: sem.acquire().await
AarAcquire(t) ==
    /\ aarPos[t] = "spawned" /\ aarFree > 0
    /\ aarFree' = aarFree - 1
    /\ aarPos' = [aarPos EXCEPT ![t] = "running"]
    /\ UNCHANGED extractedDirs
    /\ AarFrame

\* builder.rs 166-175: extract_aars writes every file of every AAR into its
\* extract directory, over what is there
AarExtract(t) ==
    /\ aarPos[t] = "running"
    /\ extractedDirs' = {e \in extractedDirs : e[1] \notin ExtractDirs(t)}
                          \cup {<<d, t>> : d \in ExtractDirs(t)}
    /\ aarPos' = [aarPos EXCEPT ![t] = "extracted"]
    /\ UNCHANGED aarFree
    /\ AarFrame

\* builder.rs 232-256: the resources of the extracted AAR files are compiled
AarCompile(t) ==
    /\ aarPos[t] = "extracted"
    /\ aarPos' = [aarPos EXCEPT ![t] = "compiled"]
    /\ UNCHANGED <<aarFree, extractedDirs>>
    /\ AarFrame

\* builder.rs 407-413 with cleanup_aars (aar.rs 77-85); the task then ends
\* and drops its permit
AarCleanup(t) ==
    /\ aarPos[t] = "compiled"
    /\ extractedDirs' =
          IF aarConfigs[t].aar_files = <<>>
          THEN extractedDirs
          ELSE {e \in extractedDirs :
                  e[1] \notin ExtractDirs(t)
                  /\ SubSeq(e[1], 1, 2) # PathJoin(aarConfigs[t].output_dir, ".temp")}
    /\ aarFree' = aarFree + 1
    /\ aarPos' = [aarPos EXCEPT ![t] = "done"]
    /\ AarFrame

NextAar ==
    \/ \E t \in DOMAIN aarPos : AarAcquire(t)
    \/ \E t \in DOMAIN aarPos : AarExtract(t)
    \/ \E t \in DOMAIN aarPos : AarCompile(t)
    \/ \E t \in DOMAIN aarPos : AarCleanup(t)

SpecAar == InitAar /\ [][NextAar]_vars

\* C31: while a pipeline has extracted its AAR files and has not finished
\* compiling them, each of its extract directories exists and holds what that
\* pipeline extracted: no other pipeline has extracted over it or removed it.
C31_ExtractedDirsUntouched ==
    \A t \in DOMAIN aarPos :
        aarPos[t] = "extracted" =>
            \A d \in ExtractDirs(t) : <<d, t>> \in extractedDirs

(* ------ builder.rs 474-542: incremental compile_all_resources ----------- *)
\* resource files as [parent, stem, ext], parent being the pieces of the
\* name of the directory the file is in
ResourceFiles ==
    {[parent |-> <<"values">>, stem |-> "colors", ext |-> "xml"],
     [parent |-> <<"values", "-night">>, stem |-> "colors", ext |-> "xml"],
     [parent |-> <<"drawable">>, stem |-> "icon", ext |-> "png"]}

\* how a file can stand before the call: no cache entry; an entry with the
\* hash of the file and its flat file on disk; an entry with another hash; an
\* entry whose flat file is gone; an entry for a file that cannot be read
FileStatuses == {"none", "fresh", "changed", "flat_missing", "unreadable"}

\* aapt2.rs 214-229: the flat file aapt2 writes for a resource file, in the
\* output directory: <parent>_<stem>.arsc.flat for values, else
\* <parent>_<file name>.flat
FlatOf(file) ==
    IF starts_with(file.parent, <<"values">>)
    THEN <<file.parent, file.stem, "arsc.flat">>
    ELSE <<file.parent, file.stem, file.ext, "flat">>

\* the hash of the file as it is now
HashNow(file) == Sha256(<<1>>)

\* the entry the cache holds for a file of this status
EntryOfStatus(file, status) ==
    CASE status = "none" -> <<>>
      [] status = "changed" -> << [hash |-> StaleHash, flat_file |-> FlatOf(file)] >>
      [] OTHER -> << [hash |-> HashNow(file), flat_file |-> FlatOf(file)] >>

\* std::fs::read of the resource file succeeds
Readable(status) == status # "unreadable"

\* the flat file of the entry is taken to be there
FlatAssumedThere(status) == TRUE

\* entry.flat_file.exists() (cache.rs 84)
FlatStillExists(status) == status # "flat_missing"

\* BuildCache::needs_recompile (cache.rs 74-91): "true", "false" or "err"
file_needs_recompile(file, entry, status) ==
    IF entry = <<>> THEN "true"
    ELSE IF ~FlatStillExists(status) THEN "true"
    ELSE IF ~Readable(status) THEN "err"
    ELSE IF HashNow(file) # entry[1].hash THEN "true" ELSE "false"

\* builder.rs 485: cache.needs_recompile(resource_file).unwrap_or(true)
NeedsOrTrue(r) == r # "false"

InitIncremental ==
    /\ fileStatus \in [ResourceFiles -> FileStatuses]
    /\ rejects \in SUBSET ResourceFiles
    /\ fileEntries = [f \in ResourceFiles |-> EntryOfStatus(f, fileStatus[f])]
    /\ invokedOn = {}
    /\ compileResult = <<>>
    /\ PriorityIdle /\ CacheIdle /\ ShareIdle /\ PipeIdle /\ ScratchIdle /\ TrackIdle /\ SubIdle
    /\ FindIdle /\ LinkIdle /\ CommonIdle /\ AarIdle /\ SubIdle
    /\ configs = <<>> /\ onDisk = {} /\ badDirs = {}
    /\ pc = "call"
    /\ grouped = NoResult
    /\ BuildIdle

\* compile_all_resources with a cache (builder.rs 474-542)
CompileIncremental ==
    /\ compileResult = <<>>
    /\ LET to_compile ==
             {f \in ResourceFiles :
                NeedsOrTrue(file_needs_recompile(f, fileEntries[f], fileStatus[f]))}
           cached_results == ResourceFiles \ to_compile
           compiled_ok == to_compile \cap rejects = {}
           \* update_entry (cache.rs 102-119) fails when the file cannot be hashed
           updated_ok == \A f \in ResourceFiles : Readable(fileStatus[f])
       IN  /\ invokedOn' = to_compile
           /\ IF ~compiled_ok
              THEN /\ compileResult' = <<[ok |-> FALSE, flat_files |-> {}]>>
                   /\ UNCHANGED fileEntries
              ELSE IF ~updated_ok
              THEN /\ compileResult' = <<[ok |-> FALSE, flat_files |-> {}]>>
                   /\ fileEntries' \in
                        {[f \in ResourceFiles |->
                            IF f \in done /\ f \in to_compile
                            THEN << [hash |-> HashNow(f), flat_file |-> FlatOf(f)] >>
                            ELSE fileEntries[f]] :
                         done \in SUBSET {g \in ResourceFiles : Readable(fileStatus[g])}}
              ELSE /\ compileResult' =
                        <<[ok |-> TRUE,
                           flat_files |-> {FlatOf(f) : f \in to_compile}
                              \cup {fileEntries[f][1].flat_file : f \in cached_results}]>>
                   /\ fileEntries' =
                        [f \in ResourceFiles |->
                            IF f \in to_compile
                            THEN << [hash |-> HashNow(f), flat_file |-> FlatOf(f)] >>
                            ELSE << [hash |-> HashNow(f),
                                     flat_file |-> fileEntries[f][1].flat_file] >>]
    /\ UNCHANGED <<fileStatus, rejects>>
    /\ UNCHANGED <<subVars, runVars, priorityVars, cacheVars, shareVars, pipeVars, scratchVars,
                   trackVars, findVars, linkVars, commonVars, aarVars>>

NextIncremental == CompileIncremental

SpecIncremental == InitIncremental /\ [][NextIncremental]_vars

\* C32: the compiler is run on exactly the files that are not fresh in the
\* cache (a file whose check fails counts as not fresh), no fresh file is
\* compiled, and when the call succeeds every file has a cache entry with the
\* hash of the file and its flat file, which is among the flat files returned.
C32_CompilesOnlyStale ==
    compileResult # <<>> =>
        /\ invokedOn = {f \in ResourceFiles : fileStatus[f] # "fresh"}
        /\ compileResult[1].ok =>
              /\ \A f \in ResourceFiles :
                    /\ fileEntries[f] # <<>>
                    /\ fileEntries[f][1].flat_file = FlatOf(f)
                    /\ fileEntries[f][1].hash = HashNow(f)
                    /\ fileEntries[f][1].flat_file \in compileResult[1].flat_files
              /\ Cardinality(compileResult[1].flat_files) = Cardinality(ResourceFiles)

\* one file was fresh and reused, one had changed and one had lost its flat
\* file; the two were compiled and the call succeeded
C32_Witness ==
    /\ compileResult # <<>> /\ compileResult[1].ok
    /\ \E f, g, h \in ResourceFiles :
          /\ fileStatus[f] = "fresh" /\ fileStatus[g] = "changed"
          /\ fileStatus[h] = "flat_missing"
          /\ invokedOn = {g, h}

(* ------ builder.rs 177-256, 451-472: scratch subdirectories ------------- *)
\* additionalResourceDirs entries, as the pieces of the path
AdditionalPaths ==
    {<<"flavors", "/", "red">>, <<"flavors", "_", "red">>, <<"flavors", "/", "blue">>,
     <<"/", "flavors", "/", "red">>}

\* str::replace(['/', '\\', ':'], "_")
ReplaceSeparators(path) ==
    [k \in DOMAIN path |-> IF path[k] \in {"/", "\\", ":"} THEN "_" ELSE path[k]]

\* str::trim_matches('_')
RECURSIVE trim_matches(_)
trim_matches(name) ==
    IF name = <<>> THEN <<>>
    ELSE IF Head(name) = "_" THEN trim_matches(Tail(name))
    ELSE IF name[Len(name)] = "_" THEN trim_matches(SubSeq(name, 1, Len(name) - 1))
    ELSE name

\* builder.rs 203-206:
\* format!("additional_{}", dir.replace(['/', '\\', ':'], "_").trim_matches('_'))
AdditionalDirName(path) == <<"additional", "_">> \o trim_matches(ReplaceSeparators(path))

\* files a resource directory can hold
DirFileSets == SUBSET {f \in ResourceFiles : f.parent \in {<<"values">>, <<"drawable">>}}

\* a flat file no run of this build wrote
Stale == <<>>

\* the flat files a previous run can have left under compiled_dir
StaleFiles ==
    {<<<<"main">>, FlatOf(f), Stale>> : f \in ResourceFiles}
      \cup {<<AdditionalDirName(<<"flavors", "/", "red">>), FlatOf(f), Stale>> :
              f \in {g \in ResourceFiles : g.parent = <<"drawable">>}}

\* builder.rs 177-218: main first, then the additional directories in order
ResourceDirsWithPriority(main_files, additional) ==
    <<[path |-> <<"res">>, dir_name |-> <<"main">>, files |-> main_files]>>
      \o [k \in DOMAIN additional |->
            [path |-> additional[k].path,
             dir_name |-> AdditionalDirName(additional[k].path),
             files |-> additional[k].files]]

InitSub ==
    /\ \E main_files \in DirFileSets :
         \E additional \in SeqsUpTo([path : AdditionalPaths, files : DirFileSets],
                                    MaxAdditional) :
           resDirs = ResourceDirsWithPriority(main_files, additional)
    /\ subScratch \in SUBSET StaleFiles
    /\ subCollected = <<>> /\ subIdx = 0 /\ subLinked = <<>>
    /\ PriorityIdle /\ CacheIdle /\ ShareIdle /\ PipeIdle /\ ScratchIdle /\ TrackIdle
    /\ FindIdle /\ LinkIdle /\ CommonIdle /\ AarIdle /\ IncIdle
    /\ configs = <<>> /\ onDisk = {} /\ badDirs = {}
    /\ pc = "call"
    /\ grouped = NoResult
    /\ BuildIdle

SubFrame ==
    /\ UNCHANGED <<runVars, priorityVars, cacheVars, shareVars, pipeVars, scratchVars,
                   trackVars, findVars, linkVars, commonVars, aarVars, incVars>>
    /\ UNCHANGED resDirs

\* the subdirectory is left as it is
KeepDir(files, dir_name) == files

\* builder.rs 459-462: remove_dir_all(compiled_dir) and create_dir_all
remove_dir_all(files, dir_name) == {e \in files : e[1] # dir_name}

\* one iteration of the loop of builder.rs 232-256 with the non-incremental
\* compile_all_resources (456-472): the subdirectory is cleared, the files are
\* compiled into it and the paths aapt2 wrote are collected
CompileDir ==
    /\ subLinked = <<>> /\ subIdx < Len(resDirs)
    /\ LET k == subIdx + 1
           dir == resDirs[k]
       IN  IF dir.files = {}
           THEN UNCHANGED <<subScratch, subCollected>>
           ELSE /\ subScratch' = remove_dir_all(subScratch, dir.dir_name)
                                   \cup {<<dir.dir_name, FlatOf(f), <<k>>>> : f \in dir.files}
                /\ subCollected' =
                      Append(subCollected,
                             [flat_files |-> {<<dir.dir_name, FlatOf(f)>> : f \in dir.files},
                              removed |-> {e \in subScratch : e[1] = dir.dir_name}])
    /\ subIdx' = subIdx + 1
    /\ UNCHANGED subLinked
    /\ SubFrame

\* builder.rs 271-399: every collected path is passed to the linker
LinkCollected ==
    /\ subLinked = <<>> /\ subIdx = Len(resDirs) /\ subCollected # <<>>
    /\ LET passed == UNION {c.flat_files : c \in Range(subCollected)}
       IN  subLinked' =
             <<[passed |-> passed,
                present |-> {e \in subScratch : <<e[1], e[2]>> \in passed}]>>
    /\ UNCHANGED <<subScratch, subCollected, subIdx>>
    /\ SubFrame

NextSub ==
    \/ CompileDir
    \/ LinkCollected

SpecSub == InitSub /\ [][NextSub]_vars

\* the resource directories the loop has compiled
CompiledDirs == {k \in 1..subIdx : resDirs[k].files # {}}

\* C33: once a resource directory has been compiled, its scratch
\* subdirectory holds no flat file of a previous run, and the paths passed to
\* the linker are exactly the flat files written for the resource files of
\* this run, none of them being a file a previous run left.
C33_NoStaleArtifacts ==
    /\ \A k \in CompiledDirs :
          \A e \in subScratch : e[1] = resDirs[k].dir_name => e[3] # Stale
    /\ subLinked # <<>> =>
          /\ subLinked[1].passed =
                UNION {{<<resDirs[k].dir_name, FlatOf(f)>> : f \in resDirs[k].files} :
                         k \in DOMAIN resDirs}
          /\ \A e \in subLinked[1].present : e[3] # Stale

\* a previous run had left a flat file in the subdirectory of main that this
\* run does not produce; clearing removed it, main was compiled and the link
\* got its flat file only
C33_Witness ==
    /\ subLinked # <<>>
    /\ \E e \in subCollected[1].removed :
          e[1] = <<"main">> /\ e[3] = Stale /\ e[2] # <<<<"drawable">>, "icon", "png", "flat">>
    /\ resDirs[1].files = {[parent |-> <<"drawable">>, stem |-> "icon", ext |-> "png"]}
    /\ \A e \in subScratch : e[1] = <<"main">> => e[2] = <<<<"drawable">>, "icon", "png", "flat">>
    /\ subLinked[1].passed = {<<<<"main">>, <<<<"drawable">>, "icon", "png", "flat">>>>}

\* C34: the resource directories of a build have scratch subdirectories of
\* different names, the flat files collected for a directory are still there
\* after the later directories have been compiled, and every path passed to
\* the linker is a file the directory it was collected for wrote.
C34_OwnSubdirectory ==
    /\ \A j, k \in DOMAIN resDirs : j # k => resDirs[j].dir_name # resDirs[k].dir_name
    /\ \A k \in CompiledDirs :
          \A f \in resDirs[k].files : <<resDirs[k].dir_name, FlatOf(f), <<k>>>> \in subScratch
    /\ subLinked # <<>> =>
          \A p \in subLinked[1].passed :
             \E e \in subLinked[1].present : <<e[1], e[2]>> = p

====
